---- MODULE Spec2Model ----
(***************************************************************************)
(* A model of the timetable application of src/main.py: the JSON document  *)
(* that Timetable.save_file writes and App.load_file reads, the navigable  *)
(* list of Menu, and the View/Edit menu (TimetableMenu).                   *)
(*                                                                         *)
(* Text is a sequence of character codes, a key is the integer getch()     *)
(* returns, a Python dict is a sequence of <<key, value>> pairs in         *)
(* insertion order, and an Optional value is <<>> (None) or <<v>>.         *)
(***************************************************************************)
EXTENDS Integers, Sequences, FiniteSets, TLC

VARIABLES
    file,               \* the file open_file is given: what json.load finds in it
    written,            \* None, or the [filename, content] the last step wrote
    outcome,            \* "running", "returned", or the exception that ended the run
    active,             \* the menus whose display() loops are on the call stack
    timetable,          \* None, or the Timetable object in use
    current_timetable,  \* App.current_timetable: None, or the Timetable load_file built
    tm,                 \* the fields of the TimetableMenu object
    cm,                 \* the fields of the TimetableCreatorMenu object, or None
    popup,              \* the message of the TempPopupWindow that waits in getch(), or None
    screen,             \* what the last display rendered before getch()
    menus               \* None, or the two QuickListMenu objects that App.__init__ made

vars ==
    <<file, written, outcome, active, timetable, current_timetable, tm, cm, popup, screen,
      menus>>

----------------------------------------------------------------------------
(* Python values *)

None == <<>>

Some(v) == <<v>>

TheValue(o) == o[1]

\* range(n) as a TLA+ sequence of the integers 0..n-1
range(n) == [i \in 1..n |-> i - 1]

(* dict: insertion-ordered, keys distinct *)

dict_has(d, k) == \E i \in 1..Len(d) : d[i][1] = k

\* list(d.keys()).index(k), 1-based; only used when k is a key
dict_pos(d, k) == CHOOSE i \in 1..Len(d) : d[i][1] = k

\* d.get(k)
dict_get(d, k) == IF dict_has(d, k) THEN Some(d[dict_pos(d, k)][2]) ELSE None

\* d[k] = v
dict_set(d, k, v) ==
    IF dict_has(d, k) THEN [d EXCEPT ![dict_pos(d, k)] = <<k, v>>]
    ELSE Append(d, <<k, v>>)

\* del d[k]
dict_del(d, k) == SelectSeq(d, LAMBDA p : p[1] # k)

dict_keys(d) == [i \in 1..Len(d) |-> d[i][1]]

dict_values(d) == [i \in 1..Len(d) |-> d[i][2]]

\* the set of elements of a sequence
Range(s) == {s[i] : i \in 1..Len(s)}

----------------------------------------------------------------------------
(* The data model: Subject, Period, PeriodTimeStruct, Timetable.           *)
(* A Subject object carries its identity oid, so that a reference to a     *)
(* catalog entry differs from a copy of it.                                *)

Subject(oid, subject_id, name, teacher) ==
    [oid |-> oid, subject_id |-> subject_id, name |-> name, teacher |-> teacher]

Period(subject, room) == [subject |-> subject, room |-> room]

PeriodTimeStruct(name, start_time, end_time) ==
    [name |-> name, start_time |-> start_time, end_time |-> end_time]

Timetable(periods, subjects, period_times, name, filename) ==
    [periods |-> periods, subjects |-> subjects, period_times |-> period_times,
     name |-> name, filename |-> filename]

----------------------------------------------------------------------------
(* JSON. A file either holds no valid JSON, or a JSON value: null (None) or *)
(* an object, a record whose fields are the keys present.                  *)

json_dumps(json_data) == [valid_json |-> TRUE, data |-> Some(json_data)]

\* Timetable.save_file: the periods of one day
save_file_day(day) ==
    [i \in 1..Len(day) |->
        <<day[i][1], [subject |-> day[i][2].subject.subject_id, room |-> day[i][2].room]>>]

\* Timetable.save_file: the file name and content it writes
save_file(self) ==
    LET days == dict_values(self.periods)
        timetable_raw == [i \in 1..Len(days) |-> save_file_day(days[i])]
        subjects_raw ==
            [i \in 1..Len(self.subjects) |->
                <<self.subjects[i][1],
                  [name |-> self.subjects[i][2].name,
                   teacher |-> self.subjects[i][2].teacher]>>]
        period_times_raw ==
            [i \in 1..Len(self.period_times) |->
                <<self.period_times[i][1],
                  [name |-> self.period_times[i][2].name,
                   start |-> self.period_times[i][2].start_time,
                   end |-> self.period_times[i][2].end_time]>>]
        json_data ==
            [name |-> self.name, timetable |-> timetable_raw,
             subjects |-> subjects_raw, period_times |-> period_times_raw]
    IN  [filename |-> self.filename, content |-> json_dumps(json_data)]

\* App.load_file: the Timetable it builds, or the exception it raises
load_subjects(subjects_raw) ==
    [i \in 1..Len(subjects_raw) |->
        <<subjects_raw[i][1],
          Subject(i, subjects_raw[i][1], subjects_raw[i][2].name, subjects_raw[i][2].teacher)>>]

\* load_file, a period entry it refuses: no subject id, an id that subjects
\* does not have, or no room
invalid_period(val, subjects) ==
    \/ "subject" \notin DOMAIN val
    \/ ~dict_has(subjects, val.subject)
    \/ "room" \notin DOMAIN val

\* a load_file that leaves out the entries it cannot resolve
load_day_dropping(day, subjects) ==
    LET kept == SelectSeq(day, LAMBDA entry : ~invalid_period(entry[2], subjects))
    IN  Some([j \in 1..Len(kept) |->
            <<kept[j][1],
              Period(TheValue(dict_get(subjects, kept[j][2].subject)), kept[j][2].room)>>])

\* load_file, the periods of one day: None when an entry makes it raise
load_day(day, subjects) ==
    IF \E j \in 1..Len(day) : invalid_period(day[j][2], subjects) THEN None
    ELSE Some([j \in 1..Len(day) |->
            <<day[j][1],
              Period(TheValue(dict_get(subjects, day[j][2].subject)), day[j][2].room)>>])

\* a load_file that takes "end" for start_time and "start" for end_time
load_period_times_swapped(period_times_raw) ==
    [i \in 1..Len(period_times_raw) |->
        <<period_times_raw[i][1],
          PeriodTimeStruct(period_times_raw[i][2].name, period_times_raw[i][2].end,
                           period_times_raw[i][2].start)>>]

\* load_file: the period time objects
load_period_times(period_times_raw) ==
    [i \in 1..Len(period_times_raw) |->
        <<period_times_raw[i][1],
          PeriodTimeStruct(period_times_raw[i][2].name, period_times_raw[i][2].start,
                           period_times_raw[i][2].end)>>]

\* a load_file that leaves out the subjects without a name or a teacher
load_file_skipping(f, filename) ==
    LET Raise(e) == [ok |-> FALSE, error |-> e]
    IN  IF ~f.valid_json THEN Raise("InvalidDataException")
        ELSE IF f.data = None THEN Raise("InvalidDataException")
        ELSE LET json_data == TheValue(f.data)
             IN  IF ~({"name", "timetable", "subjects", "period_times"} \subseteq DOMAIN json_data)
                 THEN Raise("InvalidDataException")
                 ELSE LET subjects_raw == json_data.subjects
                          timetable_raw == json_data.timetable
                          period_times_raw == json_data.period_times
                      IN  IF FALSE
                          THEN Raise("InvalidDataException")
                          ELSE LET subjects ==
                                    load_subjects(SelectSeq(subjects_raw, LAMBDA entry :
                                        {"name", "teacher"} \subseteq DOMAIN entry[2]))
                                   days == [i \in 1..Len(timetable_raw) |->
                                                load_day(timetable_raw[i], subjects)]
                               IN  IF \E i \in 1..Len(days) : days[i] = None
                                   THEN Raise("InvalidDataException")
                                   ELSE IF \E i \in 1..Len(period_times_raw) :
                                            ~({"name", "start", "end"} \subseteq
                                                    DOMAIN period_times_raw[i][2])
                                   THEN Raise("InvalidDataException")
                                   ELSE [ok |-> TRUE,
                                         timetable |->
                                            Timetable(
                                                [i \in 1..Len(timetable_raw) |->
                                                    <<i - 1, TheValue(days[i])>>],
                                                subjects,
                                                load_period_times(period_times_raw),
                                                json_data.name, filename)]

\* App.load_file
load_file(f, filename) ==
    LET Raise(e) == [ok |-> FALSE, error |-> e]
    IN  IF ~f.valid_json THEN Raise("InvalidDataException")
        ELSE IF f.data = None THEN Raise("InvalidDataException")
        ELSE LET json_data == TheValue(f.data)
             IN  IF ~({"name", "timetable", "subjects", "period_times"} \subseteq DOMAIN json_data)
                 THEN Raise("InvalidDataException")
                 ELSE LET subjects_raw == json_data.subjects
                          timetable_raw == json_data.timetable
                          period_times_raw == json_data.period_times
                      IN  IF \E i \in 1..Len(subjects_raw) :
                                ~({"name", "teacher"} \subseteq DOMAIN subjects_raw[i][2])
                          THEN Raise("InvalidDataException")
                          ELSE LET subjects == load_subjects(subjects_raw)
                                   days == [i \in 1..Len(timetable_raw) |->
                                                load_day(timetable_raw[i], subjects)]
                               IN  IF \E i \in 1..Len(days) : days[i] = None
                                   THEN Raise("InvalidDataException")
                                   ELSE IF \E i \in 1..Len(period_times_raw) :
                                            ~({"name", "start", "end"} \subseteq
                                                    DOMAIN period_times_raw[i][2])
                                   THEN Raise("InvalidDataException")
                                   ELSE [ok |-> TRUE,
                                         timetable |->
                                            Timetable(
                                                [i \in 1..Len(timetable_raw) |->
                                                    <<i - 1, TheValue(days[i])>>],
                                                subjects,
                                                load_period_times(period_times_raw),
                                                json_data.name, filename)]

----------------------------------------------------------------------------
(* Keys: the integers window.getch() returns *)

KEY_DOWN == 258

KEY_UP == 259

KEY_LEFT == 260

KEY_RIGHT == 261

KEY_BACKSPACE == 263

KEY_ENTER == 343

\* the escape key
ESC == 27

\* the other code a terminal sends for backspace
DEL == 127

\* ord(c) for the characters the source names
ord(c) ==
    CASE c = "\n" -> 10
      [] c = "\t" -> 9
      [] c = " " -> 32
      [] c = "!" -> 33
      [] c = "/" -> 47
      [] c = "0" -> 48
      [] c = "2" -> 50
      [] c = "3" -> 51
      [] c = "4" -> 52
      [] c = "6" -> 54
      [] c = "7" -> 55
      [] c = "9" -> 57
      [] c = ":" -> 58
      [] c = "A" -> 65
      [] c = "N" -> 78
      [] c = "Q" -> 81
      [] c = "S" -> 83
      [] c = "Y" -> 89
      [] c = "Z" -> 90
      [] c = "_" -> 95
      [] c = "a" -> 97
      [] c = "e" -> 101
      [] c = "n" -> 110
      [] c = "q" -> 113
      [] c = "s" -> 115
      [] c = "x" -> 120
      [] c = "y" -> 121
      [] c = "~" -> 126

\* chr(key): text holds character codes, so the character is its code
chr(key) == key

----------------------------------------------------------------------------
(* Menu: the navigable list every menu inherits *)

\* Menu.__init__: height of the main window
height == 40

\* Menu.__init__: self.max_list_items
max_list_items == height - 8

\* a Python list index: l[i] exists for -len(l) <= i < len(l)
py_valid_index(l, i) == -Len(l) <= i /\ i < Len(l)

py_item(l, i) == IF i >= 0 THEN l[i + 1] ELSE l[Len(l) + i + 1]

\* a row of list_items: item[1] is a string tag or a Subject object, item[2]
\* (the wizard's editors) names the field
Row(tag) == [tag |-> tag, field |-> "", subject |-> None]

EditorRow(field) == [tag |-> "editor", field |-> field, subject |-> None]

SubjectRow(subject) == [tag |-> "<Subject>", field |-> "", subject |-> Some(subject)]

\* Menu.navigate_list on a menu object m
navigate_list(m, change) ==
    LET moved == m.selected_list_item + change
        selected == IF moved < 0 THEN 0
                    ELSE IF moved >= Len(m.list_items) THEN Len(m.list_items) - 1
                    ELSE moved
        relative_pos == selected - m.top_list_item
        top == IF relative_pos >= max_list_items THEN selected - max_list_items + 1
               ELSE IF relative_pos < 0 THEN selected
               ELSE m.top_list_item
    IN  [m EXCEPT !.selected_list_item = selected, !.top_list_item = top]

\* Menu.display_list: the rows it draws; the caller has checked the index
display_list_rows(m) ==
    [kind |-> "list",
     first |-> m.top_list_item,
     rows |-> SubSeq(m.list_items, m.top_list_item + 1,
                     IF m.top_list_item + max_list_items < Len(m.list_items)
                     THEN m.top_list_item + max_list_items ELSE Len(m.list_items)),
     highlighted |-> m.selected_list_item,
     more_above |-> m.top_list_item > 0,
     more_below |-> Len(m.list_items) - m.top_list_item > max_list_items]

\* Menu.display_list: sets self.editing from the selected row's tag
display_list(m) ==
    [m EXCEPT !.editing = (py_item(m.list_items, m.selected_list_item).tag = "editor")]

----------------------------------------------------------------------------
(* TimetableMenu: the View/Edit menu.                                      *)
(* A handler takes and returns a world w: the menu object w.tm, the        *)
(* Timetable it edits w.timetable, and what the step did: w.outcome (an    *)
(* exception that escaped), w.popup, w.written.                            *)

\* TimetableMenu.__init__: self.cell_x_count
cell_x_count == 5

\* TimetableMenu.__init__: self.max_input_size
max_input_size == 20

Raise(w, exception) == [w EXCEPT !.outcome = exception]

\* TimetableMenu.__init__
TimetableMenu_init(t) ==
    [state |-> 0,
     selected_list_item |-> 0,
     top_list_item |-> 0,
     list_items |-> <<>>,
     editing |-> FALSE,
     period_windows |-> <<>>,
     period_time_windows |-> <<>>,
     cell_y_count |-> Len(t.period_times),
     selected_period_x |-> 0,
     selected_period_y |-> 0,
     selected_period |-> None,
     selected_subject |-> None,
     input_buffer |-> <<>>]

\* the period windows of one day, in the order of its dict
day_period_windows(day_num, day, period_times) ==
    [j \in 1..Len(day) |->
        [period |-> day[j][2], x_index |-> day_num,
         y_index |-> dict_pos(period_times, day[j][1]) - 1]]

RECURSIVE concat(_)
concat(ss) == IF ss = <<>> THEN <<>> ELSE Head(ss) \o concat(Tail(ss))

\* TimetableMenu.create_period_windows; list.index raises ValueError for a
\* slot key that period_times does not have
create_period_windows(w) ==
    LET t == w.timetable
    IN  IF \E i \in 1..Len(t.periods) : \E j \in 1..Len(t.periods[i][2]) :
                ~dict_has(t.period_times, t.periods[i][2][j][1])
        THEN Raise(w, "ValueError")
        ELSE [w EXCEPT !.tm.period_windows =
                concat([i \in 1..Len(t.periods) |->
                    day_period_windows(t.periods[i][1], t.periods[i][2], t.period_times)])]

\* TimetableMenu.create_period_time_windows
create_period_time_windows(w) ==
    [w EXCEPT !.tm.period_time_windows = @ \o dict_values(w.timetable.period_times)]

\* TimetableMenu.render_timetable: what it draws; highlighted is None or <<(x, y)>>
render_timetable(m, highlighted) ==
    LET is_selected(pw) ==
            /\ highlighted # None
            /\ TheValue(highlighted)[1] = pw.x_index
            /\ TheValue(highlighted)[2] = pw.y_index
        selection_found == \E i \in 1..Len(m.period_windows) : is_selected(m.period_windows[i])
    IN  [kind |-> "grid",
         windows |-> [i \in 1..Len(m.period_windows) |->
                        [period |-> m.period_windows[i].period,
                         x_index |-> m.period_windows[i].x_index,
                         y_index |-> m.period_windows[i].y_index,
                         selected |-> is_selected(m.period_windows[i])]],
         add_new |-> IF highlighted # None /\ ~selection_found THEN highlighted ELSE None,
         times |-> m.period_time_windows]

\* TimetableMenu.navigate_timetable
navigate_timetable(m, x_change, y_change) ==
    LET x == m.selected_period_x + x_change
        y == m.selected_period_y + y_change
    IN  [m EXCEPT
            !.selected_period_x = IF x < 0 THEN 0
                                  ELSE IF x >= cell_x_count THEN cell_x_count - 1
                                  ELSE x,
            !.selected_period_y = IF y < 0 THEN 0
                                  ELSE IF y >= m.cell_y_count THEN m.cell_y_count - 1
                                  ELSE y]

\* a Viewing that does not take esc
process_input_viewing_esc_stays(w, key) ==
    IF key = ord("e") THEN [w EXCEPT !.tm.state = 1]
    ELSE w

\* TimetableMenu.process_input_viewing
process_input_viewing(w, key) ==
    IF key = ord("e") THEN [w EXCEPT !.tm.state = 1]
    ELSE IF key = ESC THEN [w EXCEPT !.tm.state = -1]
    ELSE w

\* TimetableMenu.process_input_editing
process_input_editing(w, key) ==
    LET m == w.tm
        t == w.timetable
    IN  IF key \in {KEY_ENTER, ord("\n")}
        THEN IF ~py_valid_index(t.period_times, m.selected_period_y) THEN Raise(w, "IndexError")
             ELSE IF ~dict_has(t.periods, m.selected_period_x) THEN Raise(w, "KeyError")
             ELSE LET selected_period_id == py_item(dict_keys(t.period_times), m.selected_period_y)
                      selected_period ==
                          dict_get(TheValue(dict_get(t.periods, m.selected_period_x)),
                                   selected_period_id)
                  IN  [w EXCEPT
                        !.tm.selected_period = selected_period,
                        !.tm.selected_subject =
                            IF selected_period # None
                            THEN Some(TheValue(selected_period).subject) ELSE None,
                        !.tm.input_buffer =
                            IF selected_period # None
                            THEN TheValue(selected_period).room ELSE <<>>,
                        !.tm.selected_list_item = 0,
                        !.tm.state = 2]
        ELSE IF key = ESC THEN [w EXCEPT !.tm.state = 0]
        ELSE IF key = KEY_UP THEN [w EXCEPT !.tm = navigate_timetable(m, 0, -1)]
        ELSE IF key = KEY_DOWN THEN [w EXCEPT !.tm = navigate_timetable(m, 0, 1)]
        ELSE IF key = KEY_LEFT THEN [w EXCEPT !.tm = navigate_timetable(m, -1, 0)]
        ELSE IF key = KEY_RIGHT THEN [w EXCEPT !.tm = navigate_timetable(m, 1, 0)]
        ELSE w

\* a room editor that puts the character typed in front of the buffer
room_editor_prepending(input_buffer, key) ==
    IF ((ord("!") <= key /\ key <= ord("~")) \/ key = ord(" "))
            /\ Len(input_buffer) < max_input_size
    THEN <<chr(key)>> \o input_buffer
    ELSE IF key \in {KEY_BACKSPACE, DEL} /\ Len(input_buffer) > 0
    THEN SubSeq(input_buffer, 1, Len(input_buffer) - 1)
    ELSE input_buffer

\* the room field editor of process_input_editing_period
room_editor(input_buffer, key) ==
    IF ((ord("!") <= key /\ key <= ord("~")) \/ key = ord(" "))
            /\ Len(input_buffer) < max_input_size
    THEN Append(input_buffer, chr(key))
    ELSE IF key \in {KEY_BACKSPACE, DEL} /\ Len(input_buffer) > 0
    THEN SubSeq(input_buffer, 1, Len(input_buffer) - 1)
    ELSE input_buffer

\* a Delete that does not call create_period_windows
delete_period_stale_windows(w) ==
    LET m == w.tm
        t == w.timetable
        period_id == py_item(dict_keys(t.period_times), m.selected_period_y)
        day == TheValue(dict_get(t.periods, m.selected_period_x))
    IN  IF dict_get(day, period_id) # None
        THEN [w EXCEPT !.timetable.periods =
                    dict_set(t.periods, m.selected_period_x, dict_del(day, period_id)),
                 !.tm.state = 1]
        ELSE [w EXCEPT !.tm.state = 1]

\* process_input_editing_period, enter on "Delete"
delete_period(w) ==
    LET m == w.tm
        t == w.timetable
        period_id == py_item(dict_keys(t.period_times), m.selected_period_y)
        day == TheValue(dict_get(t.periods, m.selected_period_x))
        deleted ==
            IF dict_get(day, period_id) # None
            THEN [w EXCEPT !.timetable.periods =
                    dict_set(t.periods, m.selected_period_x, dict_del(day, period_id))]
            ELSE w
        windowed == create_period_windows(deleted)
    IN  IF windowed.outcome # "running" THEN windowed
        ELSE [windowed EXCEPT !.tm.state = 1]

\* a Save and Exit that stores the period in the first slot of the day
save_period_first_slot(w) ==
    LET m == w.tm
        t == w.timetable
    IN  IF m.selected_subject # None
        THEN LET period_id == py_item(dict_keys(t.period_times), 0)
                 new_period == Period(TheValue(m.selected_subject), m.input_buffer)
                 day == TheValue(dict_get(t.periods, m.selected_period_x))
                 stored == [w EXCEPT !.timetable.periods =
                                dict_set(t.periods, m.selected_period_x,
                                         dict_set(day, period_id, new_period))]
                 windowed == create_period_windows(stored)
             IN  IF windowed.outcome # "running" THEN windowed
                 ELSE [windowed EXCEPT !.tm.state = 1]
        ELSE [w EXCEPT !.popup = Some("Please select a subject.")]

\* a Save and Exit that stores a copy of the pending Subject
save_period_copying(w) ==
    LET m == w.tm
        t == w.timetable
    IN  IF m.selected_subject # None
        THEN LET period_id == py_item(dict_keys(t.period_times), m.selected_period_y)
                 picked == TheValue(m.selected_subject)
                 copy == Subject(-1, picked.subject_id, picked.name, picked.teacher)
                 new_period == Period(copy, m.input_buffer)
                 day == TheValue(dict_get(t.periods, m.selected_period_x))
                 stored == [w EXCEPT !.timetable.periods =
                                dict_set(t.periods, m.selected_period_x,
                                         dict_set(day, period_id, new_period))]
                 windowed == create_period_windows(stored)
             IN  IF windowed.outcome # "running" THEN windowed
                 ELSE [windowed EXCEPT !.tm.state = 1]
        ELSE [w EXCEPT !.popup = Some("Please select a subject.")]

\* process_input_editing_period, enter on "Save and Exit"
save_period(w) ==
    LET m == w.tm
        t == w.timetable
    IN  IF m.selected_subject # None
        THEN LET period_id == py_item(dict_keys(t.period_times), m.selected_period_y)
                 new_period == Period(TheValue(m.selected_subject), m.input_buffer)
                 day == TheValue(dict_get(t.periods, m.selected_period_x))
                 stored == [w EXCEPT !.timetable.periods =
                                dict_set(t.periods, m.selected_period_x,
                                         dict_set(day, period_id, new_period))]
                 windowed == create_period_windows(stored)
             IN  IF windowed.outcome # "running" THEN windowed
                 ELSE [windowed EXCEPT !.tm.state = 1]
        ELSE [w EXCEPT !.popup = Some("Please select a subject.")]

\* a period editor whose esc leaves self.editing as it is
process_input_editing_period_esc_keeps_flag(w, key) ==
    LET m == w.tm
        tag == py_item(m.list_items, m.selected_list_item).tag
    IN  IF key \in {KEY_ENTER, ord("\n")}
        THEN IF tag = "subject"
             THEN [w EXCEPT !.tm.selected_list_item = 0, !.tm.state = 3]
             ELSE IF tag = "delete" THEN delete_period(w)
             ELSE IF tag = "save_exit" THEN save_period(w)
             ELSE IF tag = "back" THEN [w EXCEPT !.tm.state = 1]
             ELSE w
        ELSE IF key = ESC THEN [w EXCEPT !.tm.state = 1]
        ELSE IF key = KEY_UP THEN [w EXCEPT !.tm = navigate_list(m, -1)]
        ELSE IF key = KEY_DOWN THEN [w EXCEPT !.tm = navigate_list(m, 1)]
        ELSE IF tag = "editor"
        THEN [w EXCEPT !.tm.input_buffer = room_editor(m.input_buffer, key)]
        ELSE w

\* a period editor whose Back stores the period like Save and Exit does
process_input_editing_period_back_saves(w, key) ==
    LET m == w.tm
        tag == py_item(m.list_items, m.selected_list_item).tag
    IN  IF key \in {KEY_ENTER, ord("\n")}
        THEN IF tag = "subject"
             THEN [w EXCEPT !.tm.selected_list_item = 0, !.tm.state = 3]
             ELSE IF tag = "delete" THEN delete_period(w)
             ELSE IF tag = "save_exit" THEN save_period(w)
             ELSE IF tag = "back"
             THEN IF m.selected_subject # None THEN save_period(w)
                  ELSE [w EXCEPT !.tm.state = 1]
             ELSE w
        ELSE IF key = ESC THEN [w EXCEPT !.tm.state = 1, !.tm.editing = FALSE]
        ELSE IF key = KEY_UP THEN [w EXCEPT !.tm = navigate_list(m, -1)]
        ELSE IF key = KEY_DOWN THEN [w EXCEPT !.tm = navigate_list(m, 1)]
        ELSE IF tag = "editor"
        THEN [w EXCEPT !.tm.input_buffer = room_editor(m.input_buffer, key)]
        ELSE w

\* TimetableMenu.process_input_editing_period
process_input_editing_period(w, key) ==
    LET m == w.tm
        tag == py_item(m.list_items, m.selected_list_item).tag
    IN  IF key \in {KEY_ENTER, ord("\n")}
        THEN IF tag = "subject"
             THEN [w EXCEPT !.tm.selected_list_item = 0, !.tm.state = 3]
             ELSE IF tag = "delete" THEN delete_period(w)
             ELSE IF tag = "save_exit" THEN save_period(w)
             ELSE IF tag = "back" THEN [w EXCEPT !.tm.state = 1]
             ELSE w
        ELSE IF key = ESC THEN [w EXCEPT !.tm.state = 1, !.tm.editing = FALSE]
        ELSE IF key = KEY_UP THEN [w EXCEPT !.tm = navigate_list(m, -1)]
        ELSE IF key = KEY_DOWN THEN [w EXCEPT !.tm = navigate_list(m, 1)]
        ELSE IF tag = "editor"
        THEN [w EXCEPT !.tm.input_buffer = room_editor(m.input_buffer, key)]
        ELSE w

\* a SelectingSubject whose choice of a subject stores the period at once
process_input_selecting_subject_storing(w, key) ==
    LET m == w.tm
        t == w.timetable
        item == py_item(m.list_items, m.selected_list_item)
    IN  IF key \in {KEY_ENTER, ord("\n")}
        THEN IF item.tag = "back"
             THEN [w EXCEPT !.tm.state = 2, !.tm.selected_list_item = 0]
             ELSE [w EXCEPT !.tm.selected_subject = item.subject,
                            !.tm.state = 2, !.tm.selected_list_item = 0,
                            !.timetable.periods =
                                dict_set(t.periods, m.selected_period_x,
                                    dict_set(TheValue(dict_get(t.periods, m.selected_period_x)),
                                             py_item(dict_keys(t.period_times),
                                                     m.selected_period_y),
                                             Period(TheValue(item.subject), m.input_buffer)))]
        ELSE IF key = ESC THEN [w EXCEPT !.tm.selected_list_item = 0, !.tm.state = 2]
        ELSE IF key = KEY_UP THEN [w EXCEPT !.tm = navigate_list(m, -1)]
        ELSE IF key = KEY_DOWN THEN [w EXCEPT !.tm = navigate_list(m, 1)]
        ELSE w

\* a SelectingSubject whose esc goes back to the grid, not to the period editor
process_input_selecting_subject_esc_to_grid(w, key) ==
    LET m == w.tm
        item == py_item(m.list_items, m.selected_list_item)
    IN  IF key \in {KEY_ENTER, ord("\n")}
        THEN IF item.tag = "back"
             THEN [w EXCEPT !.tm.state = 2, !.tm.selected_list_item = 0]
             ELSE [w EXCEPT !.tm.selected_subject = item.subject,
                            !.tm.state = 2, !.tm.selected_list_item = 0]
        ELSE IF key = ESC THEN [w EXCEPT !.tm.selected_list_item = 0, !.tm.state = 1]
        ELSE IF key = KEY_UP THEN [w EXCEPT !.tm = navigate_list(m, -1)]
        ELSE IF key = KEY_DOWN THEN [w EXCEPT !.tm = navigate_list(m, 1)]
        ELSE w

\* a SelectingSubject whose Back forgets the pending subject
process_input_selecting_subject_back_forgets(w, key) ==
    LET m == w.tm
        item == py_item(m.list_items, m.selected_list_item)
    IN  IF key \in {KEY_ENTER, ord("\n")}
        THEN [w EXCEPT !.tm.selected_subject = item.subject,
                       !.tm.state = 2, !.tm.selected_list_item = 0]
        ELSE IF key = ESC THEN [w EXCEPT !.tm.selected_list_item = 0, !.tm.state = 2]
        ELSE IF key = KEY_UP THEN [w EXCEPT !.tm = navigate_list(m, -1)]
        ELSE IF key = KEY_DOWN THEN [w EXCEPT !.tm = navigate_list(m, 1)]
        ELSE w

\* TimetableMenu.process_input_selecting_subject
process_input_selecting_subject(w, key) ==
    LET m == w.tm
        item == py_item(m.list_items, m.selected_list_item)
    IN  IF key \in {KEY_ENTER, ord("\n")}
        THEN IF item.tag = "back"
             THEN [w EXCEPT !.tm.state = 2, !.tm.selected_list_item = 0]
             ELSE [w EXCEPT !.tm.selected_subject = item.subject,
                            !.tm.state = 2, !.tm.selected_list_item = 0]
        ELSE IF key = ESC THEN [w EXCEPT !.tm.selected_list_item = 0, !.tm.state = 2]
        ELSE IF key = KEY_UP THEN [w EXCEPT !.tm = navigate_list(m, -1)]
        ELSE IF key = KEY_DOWN THEN [w EXCEPT !.tm = navigate_list(m, 1)]
        ELSE w

\* a q/Q shortcut that does not look at self.editing
takes_quit_anywhere(m, key) == key \in {ord("q"), ord("Q")}

\* a s/S shortcut that does not look at self.editing
takes_save_anywhere(m, key) == key \in {ord("s"), ord("S")}

\* process_input: the q/Q shortcut is taken
takes_quit(m, key) == key \in {ord("q"), ord("Q")} /\ m.editing = FALSE

\* process_input: the s/S shortcut is taken
takes_save(m, key) == ~takes_quit(m, key) /\ key \in {ord("s"), ord("S")} /\ m.editing = FALSE

\* a quit key that closes the View/Edit menu only
process_input_quit_closes(w, key) ==
    IF takes_quit(w.tm, key) THEN [w EXCEPT !.tm.state = -1]
    ELSE IF takes_save(w.tm, key)
    THEN [w EXCEPT !.written = Some(save_file(w.timetable)),
                   !.popup = Some("Successfully Saved Timetable")]
    ELSE IF w.tm.state = 0 THEN process_input_viewing(w, key)
    ELSE IF w.tm.state = 1 THEN process_input_editing(w, key)
    ELSE IF w.tm.state = 2 THEN process_input_editing_period(w, key)
    ELSE IF w.tm.state = 3 THEN process_input_selecting_subject(w, key)
    ELSE Raise(w, "ExitCurses")

\* TimetableMenu.process_input
process_input(w, key) ==
    IF takes_quit(w.tm, key) THEN Raise(w, "ExitCurses")
    ELSE IF takes_save(w.tm, key)
    THEN [w EXCEPT !.written = Some(save_file(w.timetable)),
                   !.popup = Some("Successfully Saved Timetable")]
    ELSE IF w.tm.state = 0 THEN process_input_viewing(w, key)
    ELSE IF w.tm.state = 1 THEN process_input_editing(w, key)
    ELSE IF w.tm.state = 2 THEN process_input_editing_period(w, key)
    ELSE IF w.tm.state = 3 THEN process_input_selecting_subject(w, key)
    ELSE Raise(w, "ExitCurses")

\* TimetableMenu.display_editing_period: the rows of the period editor
editing_period_items ==
    <<Row("subject"), EditorRow("room"), Row("delete"), Row("save_exit"), Row("back")>>

\* TimetableMenu.display_selecting_subject: one row per subject, then Back
selecting_subject_items(t) ==
    [i \in 1..Len(t.subjects) |-> SubjectRow(t.subjects[i][2])] \o <<Row("back")>>

\* one turn of the loop of a display() that shows a list: display_list and
\* what it draws, or the IndexError of indexing list_items out of range
show_list(w, m) ==
    IF ~py_valid_index(m.list_items, m.selected_list_item)
    THEN [w EXCEPT !.outcome = "IndexError", !.screen = None]
    ELSE [w EXCEPT !.screen = Some(display_list_rows(m))]

\* TimetableMenu.display: one turn of its loop up to getch(), or its return
\* in state -1
display(w) ==
    LET m == w.tm
    IN  IF w.outcome # "running" THEN w
        ELSE IF m.state = -1
        THEN [w EXCEPT !.active = SubSeq(@, 1, Len(@) - 1), !.screen = None]
        ELSE IF m.state = 0
        THEN [w EXCEPT !.screen = Some(render_timetable(m, None))]
        ELSE IF m.state = 1
        THEN [w EXCEPT !.screen =
                Some(render_timetable(m, Some(<<m.selected_period_x, m.selected_period_y>>)))]
        ELSE IF m.state = 2
        THEN LET listed == [m EXCEPT !.list_items = editing_period_items]
                 shown == show_list(w, listed)
             IN  IF shown.outcome # "running" THEN [shown EXCEPT !.tm = listed]
                 ELSE [shown EXCEPT !.tm = display_list(listed)]
        ELSE LET listed == [m EXCEPT !.list_items = selecting_subject_items(w.timetable)]
                 shown == show_list(w, listed)
             IN  IF shown.outcome # "running" THEN [shown EXCEPT !.tm = listed]
                 ELSE [shown EXCEPT !.tm = display_list(listed)]

\* after a handler: the loop of display() turns, unless the handler is still
\* in the getch() of a popup it opened
until_getch(w) == IF w.popup # None THEN w ELSE display(w)

\* TimetableMenu(timetable, stdscreen).display() up to its first getch()
open_menu(w, t) ==
    LET made == [w EXCEPT !.timetable = t, !.tm = TimetableMenu_init(t),
                          !.active = Append(@, "TimetableMenu")]
        windowed == create_period_windows(made)
    IN  IF windowed.outcome # "running" THEN windowed
        ELSE display(create_period_time_windows(windowed))

----------------------------------------------------------------------------
(* TimetableCreatorMenu: the wizard. A handler takes and returns a world w *)
(* with the wizard object w.cm; w.timetable is its self.timetable, None or *)
(* the Timetable it created last.                                          *)

\* int() of the decimal digits of a text
RECURSIVE int(_)
int(text) ==
    IF Len(text) = 0 THEN 0
    ELSE 10 * int(SubSeq(text, 1, Len(text) - 1)) + (text[Len(text)] - ord("0"))

\* str() of a number 0..9
str(n) == <<ord("0") + n>>

\* f"Period {n}"
period_name(n) == <<80, 101, 114, 105, 111, 100, 32>> \o str(n)

\* str.lower() and .replace(' ', '_') of create_timetable
lower_underscore(text) ==
    [i \in 1..Len(text) |->
        IF text[i] >= 65 /\ text[i] <= 90 THEN text[i] + 32
        ELSE IF text[i] = ord(" ") THEN 95
        ELSE text[i]]

\* a list of n empty texts
empty_texts(n) == [i \in 1..n |-> <<>>]

\* a field editor that still takes a character when the text is at its limit
field_editor_past_limit(text, key, accepted, limit) ==
    IF key \in accepted /\ Len(text) <= limit THEN Append(text, chr(key))
    ELSE IF key \in {KEY_BACKSPACE, DEL} /\ Len(text) > 0 THEN SubSeq(text, 1, Len(text) - 1)
    ELSE text

\* what a field editor that takes the characters of accepted does to a text
\* of at most limit characters
field_editor(text, key, accepted, limit) ==
    IF key \in accepted /\ Len(text) < limit THEN Append(text, chr(key))
    ELSE IF key \in {KEY_BACKSPACE, DEL} /\ Len(text) > 0 THEN SubSeq(text, 1, Len(text) - 1)
    ELSE text

Printable == (ord("!")..ord("~")) \cup {ord(" ")}

\* TimetableCreatorMenu.__init__
TimetableCreatorMenu_init ==
    [state |-> 0,
     selected_list_item |-> 0,
     top_list_item |-> 0,
     list_items |-> <<>>,
     editing |-> TRUE,
     input_buffer |-> <<<<>>, <<>>>>,
     timetable_name |-> <<>>,
     num_periods |-> 4,
     include_period_zero |-> FALSE,
     period_times |-> <<>>,
     subjects |-> <<>>,
     subject_editing_id |-> None]

\* create_timetable that names the file by the name as it was typed
create_timetable_as_typed(m) ==
    Timetable([i \in 1..6 |-> <<i - 1, <<>>>>], m.subjects, m.period_times, m.timetable_name,
              <<"data/", m.timetable_name, ".json">>)

\* TimetableCreatorMenu.create_timetable: the Timetable it builds
create_timetable(m) ==
    Timetable([i \in 1..6 |-> <<i - 1, <<>>>>], m.subjects, m.period_times, m.timetable_name,
              <<"data/", lower_underscore(m.timetable_name), ".json">>)

\* process_period_times without line 1012: the entries of the mapping of
\* before stay where the new ones do not replace them
process_period_times_keeping(m) ==
    IF m.state # 1 THEN m
    ELSE LET start_index == IF m.include_period_zero THEN 0 ELSE 1
             made == [i \in 1..(Len(m.input_buffer) \div 2) |->
                        <<ToString(i - 1),
                          PeriodTimeStruct(period_name(i - 1 + start_index),
                                           m.input_buffer[2 * (i - 1) + 1],
                                           m.input_buffer[2 * (i - 1) + 2])>>]
         IN  [m EXCEPT !.period_times =
                IF Len(@) > Len(made) THEN made \o SubSeq(@, Len(made) + 1, Len(@))
                ELSE made]

\* TimetableCreatorMenu.process_period_times
process_period_times(m) ==
    IF m.state # 1 THEN m
    ELSE LET start_index == IF m.include_period_zero THEN 0 ELSE 1
         IN  [m EXCEPT !.period_times =
                [i \in 1..(Len(m.input_buffer) \div 2) |->
                    <<ToString(i - 1),
                      PeriodTimeStruct(period_name(i - 1 + start_index),
                                       m.input_buffer[2 * (i - 1) + 1],
                                       m.input_buffer[2 * (i - 1) + 2])>>]]

\* a BasicInfo whose name editor takes "/" too
process_input_basic_info_any_name(w, key) ==
    LET m == w.cm
        item == py_item(m.list_items, m.selected_list_item)
    IN  IF key \in {KEY_ENTER, ord("\n")}
        THEN IF item.tag = "Back" THEN [w EXCEPT !.cm.state = -1]
             ELSE IF item.tag = "Next"
             THEN IF m.input_buffer[1] = <<>>
                  THEN [w EXCEPT !.popup = Some("Please enter a name for the timetable.")]
                  ELSE IF m.input_buffer[2] = <<>>
                  THEN [w EXCEPT !.popup = Some("Please select the number of periods")]
                  ELSE [w EXCEPT
                            !.cm.timetable_name = m.input_buffer[1],
                            !.cm.num_periods = int(m.input_buffer[2]),
                            !.cm.input_buffer = empty_texts(2 * int(m.input_buffer[2])),
                            !.cm.selected_list_item = 0,
                            !.cm.state = 1]
             ELSE w
        ELSE IF key = ESC THEN [w EXCEPT !.cm.state = -1]
        ELSE IF key = KEY_UP THEN [w EXCEPT !.cm = navigate_list(m, -1)]
        ELSE IF key = KEY_DOWN THEN [w EXCEPT !.cm = navigate_list(m, 1)]
        ELSE IF item.tag = "editor"
        THEN IF item.field = "name"
             THEN [w EXCEPT !.cm.input_buffer[1] =
                        field_editor(@, key, Printable, max_input_size)]
             ELSE IF item.field = "periods"
             THEN [w EXCEPT !.cm.input_buffer[2] =
                        field_editor(@, key, ord("3")..ord("6"), 1)]
             ELSE w
        ELSE IF item.tag = "period_zero"
        THEN IF key \in {ord("y"), ord("Y")} THEN [w EXCEPT !.cm.include_period_zero = TRUE]
             ELSE IF key \in {ord("n"), ord("N")}
             THEN [w EXCEPT !.cm.include_period_zero = FALSE]
             ELSE w
        ELSE w

\* process_input_basic_info whose Next, on an empty field, also clears the
\* two buffers
process_input_basic_info_clearing(w, key) ==
    LET m == w.cm
        item == py_item(m.list_items, m.selected_list_item)
    IN  IF key \in {KEY_ENTER, ord("\n")}
        THEN IF item.tag = "Back" THEN [w EXCEPT !.cm.state = -1]
             ELSE IF item.tag = "Next"
             THEN IF m.input_buffer[1] = <<>>
                  THEN [w EXCEPT !.popup = Some("Please enter a name for the timetable."),
                                 !.cm.input_buffer = <<<<>>, <<>>>>]
                  ELSE IF m.input_buffer[2] = <<>>
                  THEN [w EXCEPT !.popup = Some("Please select the number of periods"),
                                 !.cm.input_buffer = <<<<>>, <<>>>>]
                  ELSE [w EXCEPT
                            !.cm.timetable_name = m.input_buffer[1],
                            !.cm.num_periods = int(m.input_buffer[2]),
                            !.cm.input_buffer = empty_texts(2 * int(m.input_buffer[2])),
                            !.cm.selected_list_item = 0,
                            !.cm.state = 1]
             ELSE w
        ELSE IF key = ESC THEN [w EXCEPT !.cm.state = -1]
        ELSE IF key = KEY_UP THEN [w EXCEPT !.cm = navigate_list(m, -1)]
        ELSE IF key = KEY_DOWN THEN [w EXCEPT !.cm = navigate_list(m, 1)]
        ELSE IF item.tag = "editor"
        THEN IF item.field = "name"
             THEN [w EXCEPT !.cm.input_buffer[1] =
                        field_editor(@, key, Printable \ {ord("/")}, max_input_size)]
             ELSE IF item.field = "periods"
             THEN [w EXCEPT !.cm.input_buffer[2] =
                        field_editor(@, key, ord("3")..ord("6"), 1)]
             ELSE w
        ELSE IF item.tag = "period_zero"
        THEN IF key \in {ord("y"), ord("Y")} THEN [w EXCEPT !.cm.include_period_zero = TRUE]
             ELSE IF key \in {ord("n"), ord("N")}
             THEN [w EXCEPT !.cm.include_period_zero = FALSE]
             ELSE w
        ELSE w

\* TimetableCreatorMenu.process_input_basic_info
process_input_basic_info(w, key) ==
    LET m == w.cm
        item == py_item(m.list_items, m.selected_list_item)
    IN  IF key \in {KEY_ENTER, ord("\n")}
        THEN IF item.tag = "Back" THEN [w EXCEPT !.cm.state = -1]
             ELSE IF item.tag = "Next"
             THEN IF m.input_buffer[1] = <<>>
                  THEN [w EXCEPT !.popup = Some("Please enter a name for the timetable.")]
                  ELSE IF m.input_buffer[2] = <<>>
                  THEN [w EXCEPT !.popup = Some("Please select the number of periods")]
                  ELSE [w EXCEPT
                            !.cm.timetable_name = m.input_buffer[1],
                            !.cm.num_periods = int(m.input_buffer[2]),
                            !.cm.input_buffer = empty_texts(2 * int(m.input_buffer[2])),
                            !.cm.selected_list_item = 0,
                            !.cm.state = 1]
             ELSE w
        ELSE IF key = ESC THEN [w EXCEPT !.cm.state = -1]
        ELSE IF key = KEY_UP THEN [w EXCEPT !.cm = navigate_list(m, -1)]
        ELSE IF key = KEY_DOWN THEN [w EXCEPT !.cm = navigate_list(m, 1)]
        ELSE IF item.tag = "editor"
        THEN IF item.field = "name"
             THEN [w EXCEPT !.cm.input_buffer[1] =
                        field_editor(@, key, Printable \ {ord("/")}, max_input_size)]
             ELSE IF item.field = "periods"
             THEN [w EXCEPT !.cm.input_buffer[2] =
                        field_editor(@, key, ord("3")..ord("6"), 1)]
             ELSE w
        ELSE IF item.tag = "period_zero"
        THEN IF key \in {ord("y"), ord("Y")} THEN [w EXCEPT !.cm.include_period_zero = TRUE]
             ELSE IF key \in {ord("n"), ord("N")}
             THEN [w EXCEPT !.cm.include_period_zero = FALSE]
             ELSE w
        ELSE w

\* process_input_creating_period_times whose esc leaves the wizard
process_input_creating_period_times_esc_exits(w, key) ==
    LET m == w.cm
        item == py_item(m.list_items, m.selected_list_item)
        start_index == m.selected_list_item \div 3
        to_basic_info ==
            [w EXCEPT !.cm.input_buffer = <<m.timetable_name, str(m.num_periods)>>,
                      !.cm.selected_list_item = 0,
                      !.cm.state = 0]
    IN  IF key \in {KEY_ENTER, ord("\n")}
        THEN IF item.tag = "Back" THEN to_basic_info
             ELSE IF item.tag = "Next"
             THEN [w EXCEPT !.cm = [process_period_times(m) EXCEPT
                                        !.input_buffer = <<>>,
                                        !.selected_list_item = 0,
                                        !.state = 2]]
             ELSE w
        ELSE IF key = ESC THEN [w EXCEPT !.cm.state = -1]
        ELSE IF key = KEY_UP THEN [w EXCEPT !.cm = navigate_list(m, -1)]
        ELSE IF key = KEY_DOWN THEN [w EXCEPT !.cm = navigate_list(m, 1)]
        ELSE IF item.tag = "editor"
        THEN IF item.field = "start"
             THEN [w EXCEPT !.cm.input_buffer[2 * start_index + 1] =
                        field_editor(@, key, ord("0")..ord("9"), 4)]
             ELSE IF item.field = "end"
             THEN [w EXCEPT !.cm.input_buffer[2 * start_index + 2] =
                        field_editor(@, key, ord("0")..ord("9"), 4)]
             ELSE w
        ELSE w

\* process_input_creating_period_times whose Back restores the name only
process_input_creating_period_times_back_blank(w, key) ==
    LET m == w.cm
        item == py_item(m.list_items, m.selected_list_item)
        start_index == m.selected_list_item \div 3
        to_basic_info ==
            [w EXCEPT !.cm.input_buffer = <<m.timetable_name, <<>>>>,
                      !.cm.selected_list_item = 0,
                      !.cm.state = 0]
    IN  IF key \in {KEY_ENTER, ord("\n")}
        THEN IF item.tag = "Back" THEN to_basic_info
             ELSE IF item.tag = "Next"
             THEN [w EXCEPT !.cm = [process_period_times(m) EXCEPT
                                        !.input_buffer = <<>>,
                                        !.selected_list_item = 0,
                                        !.state = 2]]
             ELSE w
        ELSE IF key = ESC THEN to_basic_info
        ELSE IF key = KEY_UP THEN [w EXCEPT !.cm = navigate_list(m, -1)]
        ELSE IF key = KEY_DOWN THEN [w EXCEPT !.cm = navigate_list(m, 1)]
        ELSE IF item.tag = "editor"
        THEN IF item.field = "start"
             THEN [w EXCEPT !.cm.input_buffer[2 * start_index + 1] =
                        field_editor(@, key, ord("0")..ord("9"), 4)]
             ELSE IF item.field = "end"
             THEN [w EXCEPT !.cm.input_buffer[2 * start_index + 2] =
                        field_editor(@, key, ord("0")..ord("9"), 4)]
             ELSE w
        ELSE w

\* TimetableCreatorMenu.process_input_creating_period_times
process_input_creating_period_times(w, key) ==
    LET m == w.cm
        item == py_item(m.list_items, m.selected_list_item)
        start_index == m.selected_list_item \div 3
        to_basic_info ==
            [w EXCEPT !.cm.input_buffer = <<m.timetable_name, str(m.num_periods)>>,
                      !.cm.selected_list_item = 0,
                      !.cm.state = 0]
    IN  IF key \in {KEY_ENTER, ord("\n")}
        THEN IF item.tag = "Back" THEN to_basic_info
             ELSE IF item.tag = "Next"
             THEN [w EXCEPT !.cm = [process_period_times(m) EXCEPT
                                        !.input_buffer = <<>>,
                                        !.selected_list_item = 0,
                                        !.state = 2]]
             ELSE w
        ELSE IF key = ESC THEN to_basic_info
        ELSE IF key = KEY_UP THEN [w EXCEPT !.cm = navigate_list(m, -1)]
        ELSE IF key = KEY_DOWN THEN [w EXCEPT !.cm = navigate_list(m, 1)]
        ELSE IF item.tag = "editor"
        THEN IF item.field = "start"
             THEN [w EXCEPT !.cm.input_buffer[2 * start_index + 1] =
                        field_editor(@, key, ord("0")..ord("9"), 4)]
             ELSE IF item.field = "end"
             THEN [w EXCEPT !.cm.input_buffer[2 * start_index + 2] =
                        field_editor(@, key, ord("0")..ord("9"), 4)]
             ELSE w
        ELSE w

\* self.subjects is the dict that the Timetable of create_timetable holds as
\* its subjects: a change of it in place shows in both
set_subjects(w, subjects) ==
    [w EXCEPT !.cm.subjects = subjects,
              !.timetable = IF @ = None THEN None
                            ELSE Some([TheValue(@) EXCEPT !.subjects = subjects])]

\* create_and_view without the check of lines 1160-1162
create_and_view_unchecked(w) ==
    LET opened == open_menu(w, create_timetable(w.cm))
    IN  [opened EXCEPT !.timetable = Some(@)]

\* process_input_viewing_subjects, enter on "Create Timetable": create_timetable,
\* then TimetableMenu(...).display() up to its first getch()
create_and_view(w) ==
    IF Len(w.cm.subjects) = 0
    THEN [w EXCEPT !.popup = Some("Create at least one subject to proceed.")]
    ELSE LET opened == open_menu(w, create_timetable(w.cm))
         IN  [opened EXCEPT !.timetable = Some(@)]

\* a ViewingSubjects whose Back and esc give CreatingPeriodTimes the two
\* texts of BasicInfo
process_input_viewing_subjects_back_to_fields(w, key, new_id) ==
    LET m == w.cm
        item == py_item(m.list_items, m.selected_list_item)
        to_period_times ==
            [w EXCEPT !.cm.input_buffer = <<m.timetable_name, str(m.num_periods)>>,
                      !.cm.selected_list_item = 0,
                      !.cm.state = 1]
    IN  IF key \in {KEY_ENTER, ord("\n")}
        THEN IF item.tag = "Back" THEN to_period_times
             ELSE IF item.tag = "New"
             THEN [w EXCEPT !.cm.input_buffer = <<<<>>, <<>>>>,
                            !.cm.selected_list_item = 0,
                            !.cm.subject_editing_id = Some(new_id),
                            !.cm.state = 3]
             ELSE IF item.tag = "Create" THEN create_and_view(w)
             ELSE LET subject_editing_id == py_item(dict_keys(m.subjects), m.selected_list_item)
                      subject == TheValue(dict_get(m.subjects, subject_editing_id))
                  IN  [w EXCEPT !.cm.subject_editing_id = Some(subject_editing_id),
                                !.cm.input_buffer = <<subject.name, subject.teacher>>,
                                !.cm.state = 3]
        ELSE IF key = ESC THEN to_period_times
        ELSE IF key = KEY_UP THEN [w EXCEPT !.cm = navigate_list(m, -1)]
        ELSE IF key = KEY_DOWN THEN [w EXCEPT !.cm = navigate_list(m, 1)]
        ELSE w

\* process_input_viewing_subjects without the loop of lines 1152-1153: the id
\* of a new subject may be one that subjects has
process_input_viewing_subjects_colliding(w, key, new_id) ==
    LET m == w.cm
        item == py_item(m.list_items, m.selected_list_item)
        to_period_times ==
            [w EXCEPT !.cm.input_buffer = empty_texts(2 * m.num_periods),
                      !.cm.selected_list_item = 0,
                      !.cm.state = 1]
    IN  IF key \in {KEY_ENTER, ord("\n")}
        THEN IF item.tag = "Back" THEN to_period_times
             ELSE IF item.tag = "New"
             THEN [w EXCEPT !.cm.input_buffer = <<<<>>, <<>>>>,
                            !.cm.selected_list_item = 0,
                            !.cm.subject_editing_id =
                                IF Len(m.subjects) = 0 THEN Some(new_id)
                                ELSE Some(m.subjects[1][1]),
                            !.cm.state = 3]
             ELSE IF item.tag = "Create" THEN create_and_view(w)
             ELSE LET subject_editing_id == py_item(dict_keys(m.subjects), m.selected_list_item)
                      subject == TheValue(dict_get(m.subjects, subject_editing_id))
                  IN  [w EXCEPT !.cm.subject_editing_id = Some(subject_editing_id),
                                !.cm.input_buffer = <<subject.name, subject.teacher>>,
                                !.cm.state = 3]
        ELSE IF key = ESC THEN to_period_times
        ELSE IF key = KEY_UP THEN [w EXCEPT !.cm = navigate_list(m, -1)]
        ELSE IF key = KEY_DOWN THEN [w EXCEPT !.cm = navigate_list(m, 1)]
        ELSE w

\* TimetableCreatorMenu.process_input_viewing_subjects; new_id is the id that
\* randint gives and subjects does not have
process_input_viewing_subjects(w, key, new_id) ==
    LET m == w.cm
        item == py_item(m.list_items, m.selected_list_item)
        to_period_times ==
            [w EXCEPT !.cm.input_buffer = empty_texts(2 * m.num_periods),
                      !.cm.selected_list_item = 0,
                      !.cm.state = 1]
    IN  IF key \in {KEY_ENTER, ord("\n")}
        THEN IF item.tag = "Back" THEN to_period_times
             ELSE IF item.tag = "New"
             THEN [w EXCEPT !.cm.input_buffer = <<<<>>, <<>>>>,
                            !.cm.selected_list_item = 0,
                            !.cm.subject_editing_id = Some(new_id),
                            !.cm.state = 3]
             ELSE IF item.tag = "Create" THEN create_and_view(w)
             ELSE LET subject_editing_id == py_item(dict_keys(m.subjects), m.selected_list_item)
                      subject == TheValue(dict_get(m.subjects, subject_editing_id))
                  IN  [w EXCEPT !.cm.subject_editing_id = Some(subject_editing_id),
                                !.cm.input_buffer = <<subject.name, subject.teacher>>,
                                !.cm.state = 3]
        ELSE IF key = ESC THEN to_period_times
        ELSE IF key = KEY_UP THEN [w EXCEPT !.cm = navigate_list(m, -1)]
        ELSE IF key = KEY_DOWN THEN [w EXCEPT !.cm = navigate_list(m, 1)]
        ELSE w

\* process_input_editing_subject whose Save takes an empty name
process_input_editing_subject_unnamed(w, key) ==
    LET m == w.cm
        item == py_item(m.list_items, m.selected_list_item)
        to_subjects(v) ==
            [v EXCEPT !.cm.input_buffer = <<>>, !.cm.selected_list_item = 0, !.cm.state = 2]
    IN  IF key \in {KEY_ENTER, ord("\n")}
        THEN IF item.tag = "Delete" /\ m.subject_editing_id # None
             THEN to_subjects(set_subjects(w, dict_del(m.subjects, TheValue(m.subject_editing_id))))
             ELSE IF item.tag = "Save" /\ m.subject_editing_id # None
             THEN IF FALSE
                  THEN [w EXCEPT !.popup = Some("Please enter a name for the period.")]
                  ELSE LET id == TheValue(m.subject_editing_id)
                           new_subject == Subject(0, id, m.input_buffer[1], m.input_buffer[2])
                       IN  to_subjects(set_subjects(w, dict_set(m.subjects, id, new_subject)))
             ELSE IF item.tag = "Back" THEN to_subjects(w)
             ELSE w
        ELSE IF key = ESC THEN [w EXCEPT !.cm.selected_list_item = 0, !.cm.state = 2]
        ELSE IF key = KEY_UP THEN [w EXCEPT !.cm = navigate_list(m, -1)]
        ELSE IF key = KEY_DOWN THEN [w EXCEPT !.cm = navigate_list(m, 1)]
        ELSE IF item.tag = "editor"
        THEN IF item.field = "name"
             THEN [w EXCEPT !.cm.input_buffer[1] =
                        field_editor(@, key, Printable, max_input_size)]
             ELSE IF item.field = "teacher"
             THEN [w EXCEPT !.cm.input_buffer[2] =
                        field_editor(@, key, Printable, max_input_size)]
             ELSE w
        ELSE w

\* process_input_editing_subject whose Back commits what was typed
process_input_editing_subject_back_saves(w, key) ==
    LET m == w.cm
        item == py_item(m.list_items, m.selected_list_item)
        to_subjects(v) ==
            [v EXCEPT !.cm.input_buffer = <<>>, !.cm.selected_list_item = 0, !.cm.state = 2]
    IN  IF key \in {KEY_ENTER, ord("\n")}
        THEN IF item.tag = "Delete" /\ m.subject_editing_id # None
             THEN to_subjects(set_subjects(w, dict_del(m.subjects, TheValue(m.subject_editing_id))))
             ELSE IF item.tag = "Save" /\ m.subject_editing_id # None
             THEN IF m.input_buffer[1] = <<>>
                  THEN [w EXCEPT !.popup = Some("Please enter a name for the period.")]
                  ELSE LET id == TheValue(m.subject_editing_id)
                           new_subject == Subject(0, id, m.input_buffer[1], m.input_buffer[2])
                       IN  to_subjects(set_subjects(w, dict_set(m.subjects, id, new_subject)))
             ELSE IF item.tag = "Back"
             THEN LET id == TheValue(m.subject_editing_id)
                      new_subject == Subject(0, id, m.input_buffer[1], m.input_buffer[2])
                  IN  to_subjects(set_subjects(w, dict_set(m.subjects, id, new_subject)))
             ELSE w
        ELSE IF key = ESC THEN [w EXCEPT !.cm.selected_list_item = 0, !.cm.state = 2]
        ELSE IF key = KEY_UP THEN [w EXCEPT !.cm = navigate_list(m, -1)]
        ELSE IF key = KEY_DOWN THEN [w EXCEPT !.cm = navigate_list(m, 1)]
        ELSE IF item.tag = "editor"
        THEN IF item.field = "name"
             THEN [w EXCEPT !.cm.input_buffer[1] =
                        field_editor(@, key, Printable, max_input_size)]
             ELSE IF item.field = "teacher"
             THEN [w EXCEPT !.cm.input_buffer[2] =
                        field_editor(@, key, Printable, max_input_size)]
             ELSE w
        ELSE w

\* TimetableCreatorMenu.process_input_editing_subject
process_input_editing_subject(w, key) ==
    LET m == w.cm
        item == py_item(m.list_items, m.selected_list_item)
        to_subjects(v) ==
            [v EXCEPT !.cm.input_buffer = <<>>, !.cm.selected_list_item = 0, !.cm.state = 2]
    IN  IF key \in {KEY_ENTER, ord("\n")}
        THEN IF item.tag = "Delete" /\ m.subject_editing_id # None
             THEN to_subjects(set_subjects(w, dict_del(m.subjects, TheValue(m.subject_editing_id))))
             ELSE IF item.tag = "Save" /\ m.subject_editing_id # None
             THEN IF m.input_buffer[1] = <<>>
                  THEN [w EXCEPT !.popup = Some("Please enter a name for the period.")]
                  ELSE LET id == TheValue(m.subject_editing_id)
                           new_subject == Subject(0, id, m.input_buffer[1], m.input_buffer[2])
                       IN  to_subjects(set_subjects(w, dict_set(m.subjects, id, new_subject)))
             ELSE IF item.tag = "Back" THEN to_subjects(w)
             ELSE w
        ELSE IF key = ESC THEN [w EXCEPT !.cm.selected_list_item = 0, !.cm.state = 2]
        ELSE IF key = KEY_UP THEN [w EXCEPT !.cm = navigate_list(m, -1)]
        ELSE IF key = KEY_DOWN THEN [w EXCEPT !.cm = navigate_list(m, 1)]
        ELSE IF item.tag = "editor"
        THEN IF item.field = "name"
             THEN [w EXCEPT !.cm.input_buffer[1] =
                        field_editor(@, key, Printable, max_input_size)]
             ELSE IF item.field = "teacher"
             THEN [w EXCEPT !.cm.input_buffer[2] =
                        field_editor(@, key, Printable, max_input_size)]
             ELSE w
        ELSE w

\* TimetableCreatorMenu.process_input
creator_process_input(w, key, new_id) ==
    IF key \in {ord("q"), ord("Q")} /\ w.cm.editing = FALSE THEN Raise(w, "ExitCurses")
    ELSE IF w.cm.state = 0 THEN process_input_basic_info(w, key)
    ELSE IF w.cm.state = 1 THEN process_input_creating_period_times(w, key)
    ELSE IF w.cm.state = 2 THEN process_input_viewing_subjects(w, key, new_id)
    ELSE IF w.cm.state = 3 THEN process_input_editing_subject(w, key)
    ELSE Raise(w, "ExitCurses")

\* display_basic_info, display_creating_period_times, display_viewing_subjects
\* and display_editing_subject: the rows of the list
basic_info_items ==
    <<EditorRow("name"), EditorRow("periods"), Row("period_zero"), Row("Next"), Row("Back")>>

creating_period_times_items(m) ==
    concat([i \in 1..m.num_periods |-> <<Row("title"), EditorRow("start"), EditorRow("end")>>])
        \o <<Row("Next"), Row("Back")>>

viewing_subjects_items(m) ==
    [i \in 1..Len(m.subjects) |-> SubjectRow(m.subjects[i][2])]
        \o <<Row("New"), Row("Create"), Row("Back")>>

editing_subject_items ==
    <<EditorRow("name"), EditorRow("teacher"), Row("Delete"), Row("Save"), Row("Back")>>

\* TimetableCreatorMenu.display: one turn of its loop up to getch(), or its
\* return in state -1
creator_display(w) ==
    LET m == w.cm
    IN  IF w.outcome # "running" THEN w
        ELSE IF m.state = -1
        THEN [w EXCEPT !.active = SubSeq(@, 1, Len(@) - 1), !.screen = None]
        ELSE LET listed ==
                    [m EXCEPT !.list_items =
                        IF m.state = 0 THEN basic_info_items
                        ELSE IF m.state = 1 THEN creating_period_times_items(m)
                        ELSE IF m.state = 2 THEN viewing_subjects_items(m)
                        ELSE editing_subject_items]
                 shown == show_list(w, listed)
             IN  IF shown.outcome # "running" THEN [shown EXCEPT !.cm = listed]
                 ELSE [shown EXCEPT !.cm = display_list(listed)]

\* after a handler of the wizard: its loop turns, unless the handler is in
\* the getch() of a popup or of the View/Edit menu it opened
creator_until_getch(w) ==
    IF w.popup # None \/ w.active[Len(w.active)] # "TimetableCreatorMenu" THEN w
    ELSE creator_display(w)

\* a return of the View/Edit menu that starts the wizard over
back_in_creator_restarting(w) ==
    creator_display([w EXCEPT !.timetable = Some(@), !.tm = None,
                              !.cm.state = 0, !.cm.selected_list_item = 0,
                              !.cm.input_buffer = <<<<>>, <<>>>>])

\* the View/Edit menu returned to process_input_viewing_subjects, which
\* returns; the loop of the wizard turns
back_in_creator(w) ==
    creator_display([w EXCEPT !.timetable = Some(@), !.tm = None])

----------------------------------------------------------------------------
(* The files the runs open *)

T_Maths == <<77, 97, 116, 104, 115>>

T_English == <<69, 110, 103>>

T_Smith == <<83, 109, 105, 116, 104>>

T_Week == <<87, 101, 101, 107>>

T_P(n) == <<80, 48 + n>>

T_0900 == <<48, 57, 48, 48>>

T_0945 == <<48, 57, 52, 53>>

T_204 == <<ord("2"), ord("0"), ord("4")>>

\* a room as long as the room editor lets a room grow
T_FullRoom == [i \in 1..max_input_size |-> ord("x")]

FileName == "data/week.json"

SubjectM == <<"m", [name |-> T_Maths, teacher |-> T_Smith]>>

SubjectE == <<"e", [name |-> T_English, teacher |-> <<>>]>>

TimeRaw(n) == <<ToString(n), [name |-> T_P(n), start |-> T_0900, end |-> T_0945]>>

Entry(subject_id, room) == [subject |-> subject_id, room |-> room]

JsonFile(days, subjects, period_times) ==
    json_dumps([name |-> T_Week, timetable |-> days, subjects |-> subjects,
                period_times |-> period_times])

EmptyWeek == [i \in 1..5 |-> <<>>]

\* a week of three days: one subject, no periods, one period time
DocHappy == JsonFile([i \in 1..3 |-> <<>>], <<SubjectM>>, <<TimeRaw(0)>>)

\* a week of one day: two subjects, one period with an empty room
DocTwo ==
    JsonFile(<< <<<<"0", Entry("e", <<>>)>>>> >>, <<SubjectM, SubjectE>>, <<TimeRaw(0)>>)

\* a week of one day: two period times, the second listed first
DocRows == JsonFile(<< <<>> >>, <<SubjectM>>, <<TimeRaw(1), TimeRaw(0)>>)

\* a week of one day, whose period has a room of max_input_size characters
DocFullRoom ==
    JsonFile(<< <<<<"0", Entry("m", T_FullRoom)>>>> >>, <<SubjectM>>, <<TimeRaw(0)>>)

\* no period times at all
DocNoTimes == JsonFile(EmptyWeek, <<SubjectM>>, <<>>)

\* a period in a slot that period_times does not name
DocUnknownSlot ==
    JsonFile([EmptyWeek EXCEPT ![1] = <<<<"9", Entry("m", T_204)>>>>],
             <<SubjectM>>, <<TimeRaw(0)>>)

\* a period whose subject id is no key of subjects
DocDangling ==
    JsonFile([EmptyWeek EXCEPT ![3] = <<<<"0", Entry("m", T_204)>>, <<"1", Entry("zz", T_204)>>>>],
             <<SubjectM>>, <<TimeRaw(0), TimeRaw(1)>>)

\* a period without a room
DocNoRoom ==
    JsonFile([EmptyWeek EXCEPT ![1] = <<<<"0", [subject |-> "m"]>>>>],
             <<SubjectM>>, <<TimeRaw(0)>>)

\* a period without a subject
DocNoSubject ==
    JsonFile([EmptyWeek EXCEPT ![5] = <<<<"0", [room |-> T_204]>>>>],
             <<SubjectM>>, <<TimeRaw(0)>>)

\* a document without the key "subjects"
DocNoSubjects ==
    json_dumps([name |-> T_Week, timetable |-> EmptyWeek, period_times |-> <<TimeRaw(0)>>])

\* a subject without a teacher, a period time without an end
DocBadSubject ==
    JsonFile(EmptyWeek, <<SubjectM, <<"e", [name |-> T_English]>>>>, <<TimeRaw(0)>>)

DocBadTime ==
    JsonFile(EmptyWeek, <<SubjectM>>,
             <<TimeRaw(0), <<"1", [name |-> T_P(1), start |-> T_0900]>>>>)

\* the JSON value null, and a file that is not JSON
DocNull == [valid_json |-> TRUE, data |-> None]

DocNotJson == [valid_json |-> FALSE, data |-> None]

\* documents without the key "name", "timetable" or "period_times", with a
\* subject without a name, and with a period time without a name or a start
DocsLacking ==
    {json_dumps([timetable |-> EmptyWeek, subjects |-> <<SubjectM>>,
                 period_times |-> <<TimeRaw(0)>>]),
     json_dumps([name |-> T_Week, subjects |-> <<SubjectM>>, period_times |-> <<TimeRaw(0)>>]),
     json_dumps([name |-> T_Week, timetable |-> EmptyWeek, subjects |-> <<SubjectM>>]),
     JsonFile(EmptyWeek, <<<<"e", [teacher |-> T_Smith]>>, SubjectM>>, <<TimeRaw(0)>>),
     JsonFile(EmptyWeek, <<SubjectM>>, <<<<"0", [start |-> T_0900, end |-> T_0945]>>>>),
     JsonFile(EmptyWeek, <<SubjectM>>, <<TimeRaw(0), <<"1", [name |-> T_P(1), end |-> T_0945]>>>>)}

Docs ==
    {DocHappy, DocTwo, DocRows, DocFullRoom, DocNoTimes, DocUnknownSlot, DocDangling, DocNoRoom,
     DocNoSubject, DocNoSubjects, DocBadSubject, DocBadTime, DocNull, DocNotJson}
        \cup DocsLacking

----------------------------------------------------------------------------
(* The user: the keys pressed, the rooms typed, the cells filled *)

Keys ==
    {KEY_UP, KEY_DOWN, KEY_LEFT, KEY_RIGHT, KEY_ENTER, ord("\n"), ESC, KEY_BACKSPACE, DEL,
     ord("q"), ord("Q"), ord("s"), ord("S"), ord("e"), ord("x"), ord("\t")}

\* the rooms the user types, character by character
RoomTexts == {<<ord("q"), ord("S")>>}

Prefixes(texts) == UNION {{SubSeq(t, 1, n) : n \in 0..Len(t)} : t \in texts}

\* of a room of max_input_size characters, the user erases at most this many
\* characters, and types them back
MaxErased == 1

UserRooms ==
    Prefixes(RoomTexts)
        \cup {SubSeq(T_FullRoom, 1, n) : n \in (max_input_size - MaxErased)..max_input_size}

\* at most this many cells of the grid get filled
MaxCells == 1

Cells(t) ==
    LET RECURSIVE sum(_)
        sum(days) == IF days = <<>> THEN 0 ELSE Len(Head(days)[2]) + sum(Tail(days))
    IN  sum(t.periods)

\* a step from world w to world v stays within what the user types and fills
WithinUser(w, v) ==
    /\ v.tm.input_buffer # w.tm.input_buffer /\ v.tm.state = 2 /\ w.tm.state = 2
            => v.tm.input_buffer \in UserRooms
    /\ Cells(v.timetable) > Cells(w.timetable) => Cells(v.timetable) <= MaxCells

----------------------------------------------------------------------------
(* The run: App opens the file it is given (opts.opt_file) and runs the    *)
(* View/Edit menu on it.                                                   *)

World ==
    [tm |-> tm, cm |-> cm, timetable |-> TheValue(timetable), outcome |-> outcome,
     active |-> active, popup |-> None, written |-> None, screen |-> screen]

\* the world of a handler of the wizard
CreatorWorld ==
    [tm |-> tm, cm |-> cm, timetable |-> timetable, outcome |-> outcome,
     active |-> active, popup |-> None, written |-> None, screen |-> screen]

CommitCreator(w) ==
    /\ tm' = w.tm
    /\ cm' = w.cm
    /\ timetable' = w.timetable
    /\ outcome' = w.outcome
    /\ active' = w.active
    /\ popup' = w.popup
    /\ written' = w.written
    /\ screen' = w.screen

Commit(w) ==
    /\ tm' = w.tm
    /\ cm' = w.cm
    /\ timetable' = Some(w.timetable)
    /\ outcome' = w.outcome
    /\ active' = w.active
    /\ popup' = w.popup
    /\ written' = w.written
    /\ screen' = w.screen

\* the files that glob finds in the data directory
DataDir == <<DocHappy, DocBadTime>>

\* QuickListMenu.__init__: the items it is given, each by the callable that is
\* its item[1], and ("Exit", "Exit")
QuickListMenu_init(items) ==
    [selected_list_item |-> 0, top_list_item |-> 0,
     list_items |-> [i \in 1..Len(items) |-> Row(items[i])] \o <<Row("Exit")>>]

\* App.__init__: files_menu, one item per file of the data directory or the
\* one that says there is none, and main_menu
main_menu_init ==
    [main |-> QuickListMenu_init(<<"files_menu.display", "create_new_timetable">>),
     files |-> QuickListMenu_init(
                    IF Len(DataDir) = 0 THEN <<"beep">>
                    ELSE [i \in 1..Len(DataDir) |-> "open_file"])]

Init ==
    /\ file \in Docs
    /\ written = None
    /\ outcome = "running"
    /\ active = <<"App">>
    /\ timetable = None
    /\ current_timetable = None
    /\ tm = None
    /\ cm = None
    /\ popup = None
    /\ screen = None
    /\ menus = None

\* App.open_file: load_file, then TimetableMenu(...).display() up to its first getch()
OpenFile ==
    /\ outcome = "running"
    /\ active = <<"App">>
    /\ current_timetable = None
    /\ LET loaded == load_file(file, FileName)
       IN  IF ~loaded.ok
           THEN /\ outcome' = loaded.error
                /\ UNCHANGED <<file, written, active, timetable, current_timetable, tm,
                               cm, popup, screen, menus>>
           ELSE /\ current_timetable' = Some(loaded.timetable)
                /\ Commit(open_menu([tm |-> None, cm |-> cm, timetable |-> None,
                                     outcome |-> outcome, active |-> active,
                                     popup |-> None, written |-> None, screen |-> None],
                                    loaded.timetable))
                /\ UNCHANGED <<file, menus>>

\* the View/Edit menu is waiting in getch()
ViewWaiting ==
    /\ outcome = "running"
    /\ active # <<>>
    /\ active[Len(active)] = "TimetableMenu"

\* one key read by the getch() of TimetableMenu.display: process_input, then
\* the loop of display() up to the next getch(); Within(w, v) is the bound of
\* the user that presses it
StepWithin(key, Within(_, _)) ==
    /\ popup = None
    /\ \E w \in {World} : \E v \in {until_getch(process_input(w, key))} :
            /\ Within(w, v)
            /\ IF v.outcome = "running" /\ v.active[Len(v.active)] = "TimetableCreatorMenu"
               THEN CommitCreator(back_in_creator(v))
               ELSE Commit(v)
            /\ UNCHANGED <<file, current_timetable, menus>>

\* TempPopupWindow.display: its getch() takes the next key, whichever it is;
\* the handler that opened the popup returns and the loop of display() turns
DismissPopup ==
    /\ ViewWaiting
    /\ popup # None
    /\ Commit(display(World))
    /\ UNCHANGED <<file, current_timetable, menus>>

KeyStep(key) == StepWithin(key, WithinUser)

Quit == ViewWaiting /\ \E key \in Keys : takes_quit(tm, key) /\ KeyStep(key)

Save == ViewWaiting /\ \E key \in Keys : takes_save(tm, key) /\ KeyStep(key)

Dispatched(key) == ~takes_quit(tm, key) /\ ~takes_save(tm, key)

InputViewing ==
    ViewWaiting /\ tm.state = 0 /\ \E key \in Keys : Dispatched(key) /\ KeyStep(key)

InputEditing ==
    ViewWaiting /\ tm.state = 1 /\ \E key \in Keys : Dispatched(key) /\ KeyStep(key)

InputEditingPeriod ==
    ViewWaiting /\ tm.state = 2 /\ \E key \in Keys : Dispatched(key) /\ KeyStep(key)

InputSelectingSubject ==
    ViewWaiting /\ tm.state = 3 /\ \E key \in Keys : Dispatched(key) /\ KeyStep(key)

Next ==
    \/ OpenFile
    \/ DismissPopup
    \/ Quit
    \/ Save
    \/ InputViewing
    \/ InputEditing
    \/ InputEditingPeriod
    \/ InputSelectingSubject

Spec == Init /\ [][Next]_vars

----------------------------------------------------------------------------
(* Save, then load: Timetable.save_file on a Timetable in memory, then     *)
(* App.load_file on what it wrote. json.dumps and json.load keep a value   *)
(* made of str-keyed dicts, lists and strs as it is, so the file is the    *)
(* json_data; the conversions are those of save_file and load_file.        *)

\* the Timetables saved have at most this many days and populated cells
MaxDays == 2

MaxPeriods == 2

SubjectLists == {<<>>, <<SubjectM>>, <<SubjectM, SubjectE>>, <<SubjectE, SubjectM>>}

TimeLists == {<<>>, <<TimeRaw(0)>>, <<TimeRaw(1), TimeRaw(0)>>}

RoomsSaved == {<<>>, T_204}

\* the sequences of at most n distinct elements of S
RECURSIVE Picks(_, _)
Picks(S, n) ==
    IF n = 0 THEN {<<>>}
    ELSE Picks(S, n - 1)
            \cup {Append(p, x) : p \in {q \in Picks(S, n - 1) : Len(q) = n - 1}, x \in S}

\* the periods of a Timetable after the cells of placed were stored in turn
RECURSIVE Placed(_, _)
Placed(periods, placed) ==
    IF placed = <<>> THEN periods
    ELSE LET c == Head(placed)
             day == TheValue(dict_get(periods, c.day))
         IN  Placed(dict_set(periods, c.day, dict_set(day, c.slot, Period(c.subject, c.room))),
                    Tail(placed))

\* the valid Timetables: day keys 0..n-1, each subject under its own id, each
\* period in a slot of period_times with a Subject object of subjects
ValidTimetables ==
    UNION {
        LET subjects ==
                [i \in 1..Len(subjects_raw) |->
                    <<subjects_raw[i][1],
                      Subject(i, subjects_raw[i][1], subjects_raw[i][2].name,
                              subjects_raw[i][2].teacher)>>]
            period_times ==
                [i \in 1..Len(period_times_raw) |->
                    <<period_times_raw[i][1],
                      PeriodTimeStruct(period_times_raw[i][2].name,
                                       period_times_raw[i][2].start,
                                       period_times_raw[i][2].end)>>]
            cells == [day : 0..(n - 1), slot : Range(dict_keys(period_times)),
                      subject : Range(dict_values(subjects)), room : RoomsSaved]
            orders == {p \in Picks(cells, MaxPeriods) :
                        \A i, j \in 1..Len(p) :
                            i # j => <<p[i].day, p[i].slot>> # <<p[j].day, p[j].slot>>}
        IN  {Timetable(Placed([i \in 1..n |-> <<i - 1, <<>>>>], placed), subjects,
                       period_times, T_Week, FileName) : placed \in orders}
        : n \in 0..MaxDays, subjects_raw \in SubjectLists, period_times_raw \in TimeLists}

InitRoundTrip ==
    /\ timetable \in {Some(t) : t \in ValidTimetables}
    /\ file = DocNull
    /\ written = None
    /\ outcome = "running"
    /\ active = <<"App">>
    /\ current_timetable = None
    /\ tm = None
    /\ cm = None
    /\ popup = None
    /\ screen = None
    /\ menus = None

\* Timetable.save_file: the file it writes replaces the one on disk
SaveFile ==
    /\ written = None
    /\ written' = Some(save_file(TheValue(timetable)))
    /\ file' = written'[1].content
    /\ UNCHANGED <<outcome, active, timetable, current_timetable, tm, cm, popup, screen,
                     menus>>

\* App.load_file on the file written
LoadFile ==
    /\ written # None
    /\ outcome = "running"
    /\ current_timetable = None
    /\ LET loaded == load_file(file, TheValue(written).filename)
       IN  IF loaded.ok
           THEN current_timetable' = Some(loaded.timetable) /\ UNCHANGED outcome
           ELSE outcome' = loaded.error /\ UNCHANGED current_timetable
    /\ UNCHANGED <<file, written, active, timetable, tm, cm, popup, screen, menus>>

NextRoundTrip ==
    \/ SaveFile
    \/ LoadFile

SpecRoundTrip == InitRoundTrip /\ [][NextRoundTrip]_vars

\* what a Timetable holds: its subjects (id, name, teacher) and its populated
\* cells (day, slot, subject id, room)
SubjectsOf(t) ==
    [i \in 1..Len(t.subjects) |->
        <<t.subjects[i][1], t.subjects[i][2].subject_id, t.subjects[i][2].name,
          t.subjects[i][2].teacher>>]

CellsOf(t) ==
    UNION {{<<t.periods[i][1], t.periods[i][2][j][1],
              t.periods[i][2][j][2].subject.subject_id, t.periods[i][2][j][2].room>> :
                j \in 1..Len(t.periods[i][2])} : i \in 1..Len(t.periods)}

SameContent(t, u) ==
    /\ u.name = t.name
    /\ SubjectsOf(u) = SubjectsOf(t)
    /\ u.period_times = t.period_times
    /\ dict_keys(u.periods) = dict_keys(t.periods)
    /\ CellsOf(u) = CellsOf(t)

\* C1: loading the file save_file wrote for a valid Timetable never raises,
\* and yields a Timetable with the same name, the same subjects (id, name,
\* teacher), the same period_times in the same order and the same populated
\* cells; a Timetable without periods included.
C1_RoundTrip ==
    /\ outcome = "running"
    /\ current_timetable # None
            => SameContent(TheValue(timetable), TheValue(current_timetable))
    /\ written # None /\ Cells(TheValue(timetable)) = 0
            => LET days == TheValue(TheValue(written).content.data).timetable
               IN  /\ Len(days) = Len(TheValue(timetable).periods)
                   /\ \A i \in 1..Len(days) : days[i] = <<>>
                   /\ current_timetable # None => Cells(TheValue(current_timetable)) = 0

\* a Timetable of two subjects and two periods was saved and loaded
C1_Witness ==
    /\ current_timetable # None
    /\ written # None
    /\ Len(TheValue(timetable).subjects) = 2
    /\ Cells(TheValue(timetable)) = 2

----------------------------------------------------------------------------
(* The run of Spec: a file is opened and edited in the View/Edit menu *)

\* the JSON document f has its four keys and a period entry without a
\* subject id, without a room, or with a subject id that is no key of subjects
UnresolvedPeriod(f) ==
    /\ f.valid_json
    /\ f.data # None
    /\ LET json_data == TheValue(f.data)
       IN  /\ {"name", "timetable", "subjects", "period_times"} \subseteq DOMAIN json_data
           /\ \E i \in 1..Len(json_data.timetable) :
                \E j \in 1..Len(json_data.timetable[i]) :
                    LET entry == json_data.timetable[i][j][2]
                    IN  \/ "subject" \notin DOMAIN entry
                        \/ "room" \notin DOMAIN entry
                        \/ \A k \in 1..Len(json_data.subjects) :
                                json_data.subjects[k][1] # entry.subject

\* C2: a file with a period entry whose subject id is no key of subjects, or
\* without a subject id or a room, is never loaded: opening it ends in
\* InvalidDataException, no Timetable is built from the rest of it and no
\* menu opens.
C2_ReferentialIntegrity ==
    UnresolvedPeriod(file) =>
        /\ current_timetable = None
        /\ timetable = None
        /\ tm = None
        /\ active = <<"App">>
        /\ outcome \in {"running", "InvalidDataException"}
        /\ outcome = "running" => ENABLED OpenFile

\* the file whose third day names the unknown subject "zz" was opened
C2_Witness ==
    /\ file = DocDangling
    /\ outcome = "InvalidDataException"

\* C5: in the View/Edit menu the cursor is always within the grid:
\* 0 <= selected_period_x < 5 and 0 <= selected_period_y < len(period_times).
C5_CursorInGrid ==
    tm # None =>
        /\ 0 <= tm.selected_period_x
        /\ tm.selected_period_x < cell_x_count
        /\ 0 <= tm.selected_period_y
        /\ tm.selected_period_y < Len(TheValue(timetable).period_times)

\* the cursor left the grid: KEY_DOWN on a grid without rows
C5_CursorBelowZero ==
    /\ tm # None
    /\ tm.selected_period_y = -1

\* the populated cells of a Timetable: (day, slot key, Period)
CellMap(t) ==
    UNION {{<<t.periods[i][1], t.periods[i][2][j][1], t.periods[i][2][j][2]>> :
                j \in 1..Len(t.periods[i][2])} : i \in 1..Len(t.periods)}

\* the cursor of the View/Edit menu: its day, and the slot key of its row
CursorDay == tm.selected_period_x

CursorSlot == TheValue(timetable).period_times[tm.selected_period_y + 1][1]

AtCursor(cell) == cell[1] = CursorDay /\ cell[2] = CursorSlot

\* the period editor is open on the row with this tag
OnRow(tag) ==
    /\ ViewWaiting
    /\ tm.state = 2
    /\ editing_period_items[tm.selected_list_item + 1].tag = tag

\* the Room field editor has the focus
RoomFocus == OnRow("editor")

EnterPressed == KeyStep(KEY_ENTER) \/ KeyStep(ord("\n"))

\* everything of the Timetable but its cells stays as it is
SameCatalog ==
    /\ TheValue(timetable').subjects = TheValue(timetable).subjects
    /\ TheValue(timetable').period_times = TheValue(timetable).period_times
    /\ TheValue(timetable').name = TheValue(timetable).name
    /\ dict_keys(TheValue(timetable').periods) = dict_keys(TheValue(timetable).periods)

C8_Delete ==
    [][OnRow("delete") /\ EnterPressed =>
        /\ CellMap(TheValue(timetable')) =
                {cell \in CellMap(TheValue(timetable)) : ~AtCursor(cell)}
        /\ SameCatalog
        /\ (\A cell \in CellMap(TheValue(timetable)) : ~AtCursor(cell))
                => TheValue(timetable').periods = TheValue(timetable).periods
        /\ tm'.state = 1
        /\ outcome' = "running"
        /\ tm'.selected_period_x = tm.selected_period_x
        /\ tm'.selected_period_y = tm.selected_period_y
        /\ \A i \in 1..Len(tm'.period_windows) :
                <<tm'.period_windows[i].x_index, tm'.period_windows[i].y_index>>
                    # <<tm.selected_period_x, tm.selected_period_y>>
        /\ screen' # None
        /\ TheValue(screen').kind = "grid"
        /\ TheValue(screen').add_new = Some(<<tm.selected_period_x, tm.selected_period_y>>)
        /\ \A i \in 1..Len(TheValue(screen').windows) : ~TheValue(screen').windows[i].selected
      ]_vars

\* the period the file came with was deleted
C8_Witness ==
    /\ ViewWaiting
    /\ tm.state = 1
    /\ file = DocTwo
    /\ CellMap(TheValue(timetable)) = {}
    /\ TheValue(screen).add_new = Some(<<0, 0>>)

\* C9: in every state of the View/Edit menu q or Q raises the exit signal
\* at once when no field editor has the focus; while the Room editor has it,
\* q or Q is appended to the room buffer, if max_input_size allows, and the
\* state stays as it is.
C9_Quit ==
    [][ViewWaiting =>
        \A key \in {ord("q"), ord("Q")} :
            KeyStep(key) =>
                IF RoomFocus
                THEN /\ outcome' = "running"
                     /\ tm'.state = 2
                     /\ tm'.selected_list_item = tm.selected_list_item
                     /\ tm'.input_buffer =
                            IF Len(tm.input_buffer) < max_input_size
                            THEN Append(tm.input_buffer, key) ELSE tm.input_buffer
                     /\ timetable' = timetable
                ELSE /\ outcome' = "ExitCurses"
                     /\ timetable' = timetable
                     /\ written' = None]_vars

\* q was typed into the room while the Room editor had the focus
C9_Witness ==
    /\ RoomFocus
    /\ tm.input_buffer = <<ord("q")>>

----------------------------------------------------------------------------
(* The states of the View/Edit menu and the edges between them *)

Viewing == 0

Editing == 1

EditingPeriod == 2

SelectingSubject == 3

Exiting == -1

Enter == {KEY_ENTER, ord("\n")}

\* the edge from state `from` to state `to` that the key may take, given the
\* row the list cursor is on and the pending subject
Edge(from, key, to) ==
    \/ from = Viewing /\ key = ord("e") /\ to = Editing
    \/ from = Viewing /\ key = ESC /\ to = Exiting
    \/ from = Editing /\ key \in Enter /\ to = EditingPeriod
    \/ from = Editing /\ key = ESC /\ to = Viewing
    \/ from = EditingPeriod /\ key \in Enter /\ OnRow("subject") /\ to = SelectingSubject
    \/ /\ from = EditingPeriod /\ key \in Enter /\ to = Editing
       /\ \/ OnRow("delete")
          \/ OnRow("back")
          \/ OnRow("save_exit") /\ tm.selected_subject # None
    \/ from = EditingPeriod /\ key = ESC /\ to = Editing
    \/ from = SelectingSubject /\ key \in Enter \cup {ESC} /\ to = EditingPeriod

\* C11: the View/Edit menu starts in Viewing; a key changes its state only
\* along an edge of the transition relation (Viewing -e-> Editing, Viewing
\* -esc-> Exiting, Editing -enter-> EditingPeriod, Editing -esc-> Viewing,
\* EditingPeriod -> SelectingSubject by enter on Subject, EditingPeriod ->
\* Editing by Delete, a Save and Exit with a subject, Back or esc,
\* SelectingSubject -> EditingPeriod by enter or esc), and takes the edge when
\* the step raises nothing; Exiting is entered from Viewing only, and in
\* Exiting the menu reads no key.
C11_Transitions ==
    [][/\ tm = None /\ tm' # None => tm'.state = Viewing
       /\ tm # None /\ tm' # None /\ tm'.state # tm.state =>
            /\ ViewWaiting
            /\ \E key \in Keys : KeyStep(key) /\ Edge(tm.state, key, tm'.state)
       /\ ViewWaiting /\ popup = None /\ tm'.state # tm.state =>
            \A key \in Keys : KeyStep(key) => Edge(tm.state, key, tm'.state)
       /\ ViewWaiting /\ popup = None =>
            \A key \in Enter \cup {ESC, ord("e")} :
                \A to \in {Viewing, Editing, EditingPeriod, SelectingSubject, Exiting} :
                    Edge(tm.state, key, to) /\ KeyStep(key) /\ outcome' = "running"
                        => tm'.state = to
       /\ tm # None /\ tm'# None /\ tm'.state = Exiting /\ tm.state # Exiting =>
            tm.state = Viewing
       /\ tm # None /\ tm.state = Exiting => ~ViewWaiting]_vars

\* esc in Viewing: the menu is in Exiting and has returned to App
C11_Witness ==
    /\ tm # None
    /\ tm.state = Exiting
    /\ active = <<"App">>
    /\ outcome = "running"

----------------------------------------------------------------------------
(* Entering and leaving the period editor *)

\* the cursor is on a cell of a day and a slot that the Timetable has
CursorOnTimetable ==
    /\ dict_has(TheValue(timetable).periods, tm.selected_period_x)
    /\ 0 <= tm.selected_period_y
    /\ tm.selected_period_y < Len(TheValue(timetable).period_times)

\* the step opened the period editor on the cell of the cursor: row 0, and
\* the subject and the room of the Period there, or no subject and ""
OpensPeriodEditor ==
    /\ outcome' = "running"
    /\ tm'.state = EditingPeriod
    /\ tm'.selected_list_item = 0
    /\ tm'.selected_period_x = tm.selected_period_x
    /\ tm'.selected_period_y = tm.selected_period_y
    /\ timetable' = timetable
    /\ LET here == {cell \in CellMap(TheValue(timetable)) : AtCursor(cell)}
       IN  IF here = {}
           THEN tm'.selected_subject = None /\ tm'.input_buffer = <<>>
           ELSE \A cell \in here :
                    /\ tm'.selected_subject = Some(cell[3].subject)
                    /\ tm'.input_buffer = cell[3].room

\* C12: enter in Editing, at any cell of the cursor, moves to EditingPeriod
\* with the list cursor on row 0 and the pending subject and the room buffer
\* those of the Period of the cell, or no subject and the empty string on an
\* empty cell, whatever was pending before.
C12_EnterEditingPeriod ==
    [][ViewWaiting /\ popup = None /\ tm.state = Editing =>
        \A key \in Enter : KeyStep(key) => OpensPeriodEditor]_vars

\* enter on a cell of a day that the loaded week does not have: KeyError
C12_EnterRaised ==
    /\ tm # None
    /\ tm.state = Editing
    /\ outcome = "KeyError"
    /\ tm.selected_period_x = Len(TheValue(timetable).periods)
    /\ tm.selected_period_x < cell_x_count

\* where the Timetable has the day and the slot of the cursor, enter in
\* Editing does open the period editor as C12 says
EnterOnTimetableCell ==
    [][ViewWaiting /\ popup = None /\ tm.state = Editing /\ CursorOnTimetable =>
        \A key \in Enter : KeyStep(key) => OpensPeriodEditor]_vars

\* the step left the period editor for the grid and changed nothing of the
\* Timetable, of the grid's windows or of the cursor, and wrote nothing
Discarded ==
    /\ outcome' = "running"
    /\ tm'.state = Editing
    /\ timetable' = timetable
    /\ tm'.period_windows = tm.period_windows
    /\ tm'.selected_period_x = tm.selected_period_x
    /\ tm'.selected_period_y = tm.selected_period_y
    /\ written' = None

\* C13: enter on Back, or esc, in EditingPeriod returns to Editing and leaves
\* the Timetable exactly as it was when EditingPeriod was entered: the step
\* itself changes nothing of it, and neither does any step between entering
\* the period editor and leaving it, whatever subject is picked and whatever
\* room is typed.
C13_Discard ==
    [][/\ ViewWaiting /\ popup = None /\ tm.state = EditingPeriod =>
            /\ OnRow("back") => \A key \in Enter : KeyStep(key) => Discarded
            /\ KeyStep(ESC) => Discarded
       /\ /\ ViewWaiting
          /\ tm.state \in {EditingPeriod, SelectingSubject}
          /\ tm'.state \in {EditingPeriod, SelectingSubject}
          => timetable' = timetable]_vars

\* back on the grid of the file without periods, with a subject picked and a
\* room typed, and no period stored
C13_Witness ==
    /\ ViewWaiting
    /\ file = DocHappy
    /\ tm.state = Editing
    /\ tm.selected_subject # None
    /\ tm.input_buffer = <<ord("q"), ord("S")>>
    /\ CellMap(TheValue(timetable)) = {}
    /\ tm.period_windows = <<>>

\* the step went back to the period editor, with the room buffer and the
\* Timetable as they were
BackInPeriodEditor ==
    /\ outcome' = "running"
    /\ tm'.state = EditingPeriod
    /\ tm'.input_buffer = tm.input_buffer
    /\ timetable' = timetable
    /\ written' = None

\* C14: in SelectingSubject, enter on the row of a subject makes that subject
\* of the Timetable's catalog the pending subject and returns to
\* EditingPeriod; enter on Back, or esc, returns to EditingPeriod with the
\* pending subject as it was; the room buffer and the Timetable stay as they
\* are in all three cases.
C14_SelectingSubject ==
    [][ViewWaiting /\ popup = None /\ tm.state = SelectingSubject =>
        LET subjects == TheValue(timetable).subjects
            row == tm.selected_list_item
        IN  /\ \A key \in Enter :
                    KeyStep(key) =>
                        /\ BackInPeriodEditor
                        /\ 0 <= row /\ row <= Len(subjects)
                        /\ tm'.selected_subject =
                                IF row < Len(subjects) THEN Some(subjects[row + 1][2])
                                ELSE tm.selected_subject
            /\ KeyStep(ESC) =>
                    /\ BackInPeriodEditor
                    /\ tm'.selected_subject = tm.selected_subject]_vars

\* on the cell that holds a period of subject e, subject m was picked
C14_Witness ==
    /\ ViewWaiting
    /\ file = DocTwo
    /\ tm.state = EditingPeriod
    /\ tm.selected_subject = Some(TheValue(timetable).subjects[1][2])
    /\ \E cell \in CellMap(TheValue(timetable)) :
            /\ AtCursor(cell)
            /\ cell[3].subject = TheValue(timetable).subjects[2][2]

----------------------------------------------------------------------------
(* The days of the week of a Timetable *)

\* the day indices of a Timetable: the positions of the list Timetable.periods
DayIndices(t) == {t.periods[i][1] : i \in 1..Len(t.periods)}

\* the columns of the grid, over which navigate_timetable moves the cursor
GridColumns == 0..(cell_x_count - 1)

\* C17: every Timetable that the View/Edit menu runs on, loaded from a file
\* or built by the wizard, has the day indices 0..4 exactly: each column of
\* the cursor has its day mapping and there is no day index beyond them.
C17_FiveDayWeek ==
    ViewWaiting => DayIndices(TheValue(timetable)) = GridColumns

\* the View/Edit menu runs on a loaded week that lacks a column of the grid
C17_ShortWeek ==
    /\ ViewWaiting
    /\ cm = None
    /\ \E x \in GridColumns : x \notin DayIndices(TheValue(timetable))

\* the View/Edit menu runs on a Timetable of the wizard, whose
\* create_timetable makes range(6) day mappings: day index 5 exists
SixthDayOfWizard ==
    /\ ViewWaiting
    /\ cm # None
    /\ cell_x_count \in DayIndices(TheValue(timetable))

----------------------------------------------------------------------------
(* The happy path: a user who fills one cell of a loaded timetable that    *)
(* has one subject m, no periods and four period times.                    *)

ScenarioDocs ==
    {JsonFile([i \in 1..days |-> <<>>], <<<<"m", [name |-> T_Maths, teacher |-> teacher]>>>>,
              period_times) :
        days \in {5, 6},
        teacher \in {T_Smith, <<>>},
        period_times \in {<<TimeRaw(0), TimeRaw(1), TimeRaw(2), TimeRaw(3)>>,
                          <<TimeRaw(3), TimeRaw(2), TimeRaw(1), TimeRaw(0)>>}}

InitScenario ==
    /\ file \in ScenarioDocs
    /\ written = None
    /\ outcome = "running"
    /\ active = <<"App">>
    /\ timetable = None
    /\ current_timetable = None
    /\ tm = None
    /\ cm = None
    /\ popup = None
    /\ screen = None
    /\ menus = None

Anything(w, v) == TRUE

\* the user presses this key, whatever it leads to
Press(key) == ViewWaiting /\ StepWithin(key, Anything)

SelectedRow == tm.list_items[tm.selected_list_item + 1]

PressE == ViewWaiting /\ tm.state = 0 /\ Press(ord("e"))

MoveCursor ==
    /\ ViewWaiting
    /\ tm.state = 1
    /\ Cells(TheValue(timetable)) = 0
    /\ \E key \in {KEY_UP, KEY_DOWN, KEY_LEFT, KEY_RIGHT} : Press(key)

OpenCell ==
    /\ ViewWaiting
    /\ tm.state = 1
    /\ Cells(TheValue(timetable)) = 0
    /\ tm.selected_period_x = 2
    /\ tm.selected_period_y = 1
    /\ Press(KEY_ENTER)

EnterOnSubject ==
    /\ OnRow("subject")
    /\ tm.selected_subject = None
    /\ Press(KEY_ENTER)

EnterOnM ==
    /\ ViewWaiting
    /\ tm.state = 3
    /\ SelectedRow.subject # None
    /\ TheValue(SelectedRow.subject).subject_id = "m"
    /\ Press(KEY_ENTER)

MoveToRoom ==
    /\ OnRow("subject")
    /\ tm.selected_subject # None
    /\ Press(KEY_DOWN)

TypeRoom ==
    /\ RoomFocus
    /\ Len(tm.input_buffer) < Len(T_204)
    /\ tm.input_buffer = SubSeq(T_204, 1, Len(tm.input_buffer))
    /\ Press(T_204[Len(tm.input_buffer) + 1])

MoveToSave ==
    /\ RoomFocus \/ OnRow("delete")
    /\ tm.input_buffer = T_204
    /\ Press(KEY_DOWN)

EnterOnSave ==
    /\ OnRow("save_exit")
    /\ tm.input_buffer = T_204
    /\ Press(KEY_ENTER)

NextScenario ==
    \/ OpenFile
    \/ PressE
    \/ MoveCursor
    \/ OpenCell
    \/ EnterOnSubject
    \/ EnterOnM
    \/ MoveToRoom
    \/ TypeRoom
    \/ MoveToSave
    \/ EnterOnSave

SpecScenario == InitScenario /\ [][NextScenario]_vars

\* the scenario is over: a cell is filled
ScenarioDone == timetable # None /\ Cells(TheValue(timetable)) > 0

\* C7: from a loaded timetable with one subject m, no periods and four
\* period times, the keys e, arrows to the cursor (2, 1), enter, enter on
\* Subject, enter on subject m, down to Room, 2, 0, 4, down to Save and Exit,
\* enter never raise and end in Editing with
\* periods[2][second slot key] = Period(subject m, "204") and no other cell.
C7_HappyPath ==
    /\ outcome = "running"
    /\ ScenarioDone \/ ENABLED NextScenario
    /\ ScenarioDone =>
        /\ tm.state = 1
        /\ CellMap(TheValue(timetable)) =
                {<<2, TheValue(timetable).period_times[2][1],
                   Period(TheValue(timetable).subjects[1][2], T_204)>>}
        /\ TheValue(timetable).subjects[1][2].subject_id = "m"
        /\ dict_keys(TheValue(timetable).periods) = range(Len(TheValue(file.data).timetable))

\* the scenario ended on the week whose second period time is "2"
C7_Witness ==
    /\ ScenarioDone
    /\ tm.state = 1
    /\ TheValue(timetable).period_times[2][1] = "2"
    /\ Len(TheValue(timetable).periods) = 5

----------------------------------------------------------------------------
(* A list longer than the window: a file with as many subjects as the      *)
(* window has rows, so that the list of SelectingSubject, with its Back    *)
(* row, scrolls.                                                           *)

DocLong ==
    JsonFile(<< <<>> >>,
             [i \in 1..max_list_items |-> <<ToString(i), [name |-> T_P(0), teacher |-> <<>>]>>],
             <<TimeRaw(0)>>)

InitLongList ==
    /\ file = DocLong
    /\ written = None
    /\ outcome = "running"
    /\ active = <<"App">>
    /\ timetable = None
    /\ current_timetable = None
    /\ tm = None
    /\ cm = None
    /\ popup = None
    /\ screen = None
    /\ menus = None

\* this user walks the lists and picks subjects, and stores nothing
Browsing(w, v) ==
    /\ v.timetable = w.timetable
    /\ v.popup = None

BrowseKeys == {KEY_UP, KEY_DOWN, KEY_ENTER, ESC, ord("e")}

Browse == ViewWaiting /\ \E key \in BrowseKeys : StepWithin(key, Browsing)

NextLongList ==
    \/ OpenFile
    \/ Browse

SpecLongList == InitLongList /\ [][NextLongList]_vars

\* C4: whenever the View/Edit menu shows a list, the selected index is within
\* the list and the viewport holds it:
\* 0 <= top_list_item <= selected_list_item <= top_list_item + max_list_items - 1.
C4_ListWindow ==
    ViewWaiting /\ tm.state \in {2, 3} =>
        /\ 0 <= tm.selected_list_item
        /\ tm.selected_list_item < Len(tm.list_items)
        /\ 0 <= tm.top_list_item
        /\ tm.top_list_item <= tm.selected_list_item
        /\ tm.selected_list_item <= tm.top_list_item + max_list_items - 1

\* the period editor is drawn from its second row on, its selected first row
\* is not on the screen
C4_SelectionOffScreen ==
    /\ OnRow("subject")
    /\ tm.top_list_item = 1
    /\ TheValue(screen).kind = "list"
    /\ TheValue(screen).first = 1
    /\ TheValue(screen).highlighted = 0
    /\ TheValue(screen).rows = SubSeq(editing_period_items, 2, 5)

----------------------------------------------------------------------------
(* The run of the wizard: "Create New" of the main menu has called         *)
(* App.create_new_timetable, and TimetableCreatorMenu.display is in its    *)
(* loop; "Create Timetable" runs the View/Edit menu inside it.             *)

InitWizard ==
    LET made == creator_display(
                    [tm |-> None, cm |-> TimetableCreatorMenu_init, timetable |-> None,
                     outcome |-> "running",
                     active |-> <<"App", "QuickListMenu", "TimetableCreatorMenu">>,
                     popup |-> None, written |-> None, screen |-> None])
    IN  /\ file = None
        /\ current_timetable = None
        /\ written = None
        /\ tm = made.tm
        /\ cm = made.cm
        /\ timetable = made.timetable
        /\ outcome = made.outcome
        /\ active = made.active
        /\ popup = made.popup
        /\ screen = made.screen
        /\ menus = Some([main_menu_init EXCEPT !.main = navigate_list(@, 1)])

\* the wizard is waiting in getch()
CreatorWaiting ==
    /\ outcome = "running"
    /\ active # <<>>
    /\ active[Len(active)] = "TimetableCreatorMenu"

\* the row of the list cursor of the wizard
CreatorRow == py_item(cm.list_items, cm.selected_list_item)

\* one key read by the getch() of TimetableCreatorMenu.display, with the id
\* that randint would give
CreatorStep(key, new_id, Within(_, _)) ==
    /\ popup = None
    /\ \E w \in {CreatorWorld} :
        \E v \in {creator_until_getch(creator_process_input(w, key, new_id))} :
            /\ Within(w, v)
            /\ CommitCreator(v)
            /\ UNCHANGED <<file, current_timetable, menus>>

\* the getch() of a popup of the wizard takes the next key
CreatorDismissPopup ==
    /\ CreatorWaiting
    /\ popup # None
    /\ CommitCreator(creator_display(CreatorWorld))
    /\ UNCHANGED <<file, current_timetable, menus>>

\* the user of the wizard makes at most this many subjects
MaxSubjects == 1

\* the ids randint gives: one more than the subjects made
Ids == {ToString(1000 + i) : i \in 1..(MaxSubjects + 1)}

Unused(ids) == {id \in ids : ~dict_has(cm.subjects, id)}

WizardKeys ==
    {KEY_UP, KEY_DOWN, KEY_ENTER, ESC, KEY_BACKSPACE, ord("q"), ord("s"), ord("3"), ord("y"),
     ord("n"), ord("/")}

\* what this user types: the name "q", 3 periods a day, one start time "3",
\* subjects named "q" without a teacher
WithinWizardUser(w, v) ==
    /\ Len(v.cm.subjects) <= MaxSubjects
    /\ v.cm.input_buffer # w.cm.input_buffer /\ v.cm.state = w.cm.state =>
        LET typed == v.cm.input_buffer
        IN  IF v.cm.state = 0
            THEN typed[1] \in {<<>>, <<ord("q")>>} /\ typed[2] \in {<<>>, <<ord("3")>>}
            ELSE IF v.cm.state = 1
            THEN /\ typed[1] \in {<<>>, <<ord("3")>>}
                 /\ \A i \in 2..Len(typed) : typed[i] = <<>>
            ELSE typed[1] \in {<<>>, <<ord("q")>>} /\ typed[2] = <<>>

\* in the View/Edit menu of the wizard the user stores no period, and types
\* "s" or "S" as a room
NestedKeys == {ord("e"), KEY_ENTER, KEY_DOWN, ESC, ord("s"), ord("S"), ord("q")}

WithinNestedUser(w, v) ==
    /\ v.timetable = w.timetable
    /\ v.tm.input_buffer \in {<<>>, <<ord("s")>>, <<ord("S")>>}

CreatorKey(state) ==
    /\ CreatorWaiting
    /\ cm.state = state
    /\ \E key \in WizardKeys : \E new_id \in Unused(Ids) :
            /\ ~(key \in {ord("q"), ord("Q")} /\ cm.editing = FALSE)
            /\ CreatorStep(key, new_id, WithinWizardUser)

CreatorQuit ==
    /\ CreatorWaiting
    /\ cm.editing = FALSE
    /\ \E key \in {ord("q"), ord("Q")} : \E new_id \in Unused(Ids) :
            CreatorStep(key, new_id, WithinWizardUser)

InputBasicInfo == CreatorKey(0)

InputCreatingPeriodTimes == CreatorKey(1)

InputViewingSubjects == CreatorKey(2)

InputEditingSubject == CreatorKey(3)

\* a key in the View/Edit menu that "Create Timetable" opened
NestedViewEdit ==
    /\ ViewWaiting
    /\ \E key \in NestedKeys : StepWithin(key, WithinNestedUser)

NextWizard ==
    \/ CreatorDismissPopup
    \/ CreatorQuit
    \/ InputBasicInfo
    \/ InputCreatingPeriodTimes
    \/ InputViewingSubjects
    \/ InputEditingSubject
    \/ NestedViewEdit
    \/ DismissPopup

SpecWizard == InitWizard /\ [][NextWizard]_vars

\* C10: the Timetable is written to its file exactly when s or S is read by
\* the View/Edit menu while no field editor has the focus, and what is written
\* is save_file of the Timetable as it is; no step of the wizard writes, the
\* one that creates the Timetable included; s or S read while the Room editor
\* has the focus is appended to the room buffer and nothing is written.
C10_ExplicitSaveOnly ==
    [][/\ written' # None =>
            /\ ViewWaiting
            /\ popup = None
            /\ ~RoomFocus
            /\ Press(ord("s")) \/ Press(ord("S"))
            /\ written' = Some(save_file(TheValue(timetable)))
            /\ timetable' = timetable
       /\ ViewWaiting /\ popup = None =>
            \A key \in {ord("s"), ord("S")} :
                Press(key) =>
                    IF RoomFocus
                    THEN /\ written' = None
                         /\ tm'.state = 2
                         /\ tm'.input_buffer =
                                IF Len(tm.input_buffer) < max_input_size
                                THEN Append(tm.input_buffer, key) ELSE tm.input_buffer
                    ELSE written' # None
       /\ CreatorWaiting => written' = None]_vars

\* the Timetable that the wizard created is written by s in the View/Edit
\* menu that "Create Timetable" opened, and the popup says so
C10_Witness ==
    /\ active = <<"App", "QuickListMenu", "TimetableCreatorMenu", "TimetableMenu">>
    /\ written = Some(save_file(TheValue(timetable)))
    /\ popup = Some("Successfully Saved Timetable")
    /\ file = None

\* the wizard waits in ViewingSubjects on the row "Create Timetable" with no
\* subject in its catalog
CreateWithoutSubjects ==
    /\ CreatorWaiting
    /\ popup = None
    /\ cm.state = 2
    /\ Len(cm.subjects) = 0
    /\ py_item(cm.list_items, cm.selected_list_item).tag = "Create"

\* C18: in ViewingSubjects with no subject in the catalog, enter on "Create
\* Timetable" leaves the wizard in ViewingSubjects as it was, constructs no
\* Timetable, starts no View/Edit menu, and only shows the message "Create at
\* least one subject to proceed.", which waits for a key.
C18_NoSubjectsNoTimetable ==
    [][CreateWithoutSubjects =>
        \A key \in Enter : \A new_id \in Ids :
            CreatorStep(key, new_id, WithinWizardUser) =>
                /\ outcome' = "running"
                /\ cm' = cm
                /\ cm'.state = 2
                /\ timetable' = timetable
                /\ tm' = tm
                /\ active' = active
                /\ written' = None
                /\ popup' = Some("Create at least one subject to proceed.")]_vars

\* the message is on the screen, over the wizard in ViewingSubjects
C18_Witness ==
    /\ CreatorWaiting
    /\ popup = Some("Create at least one subject to proceed.")
    /\ cm.state = 2
    /\ Len(cm.subjects) = 0
    /\ py_item(cm.list_items, cm.selected_list_item).tag = "Create"
    /\ tm = None

\* the same after a Timetable was created and its only subject deleted: the
\* Timetable of before is still the wizard's
RejectedAfterDelete ==
    /\ C18_Witness
    /\ timetable # None

----------------------------------------------------------------------------
(* The field editors: a typist fills every field of the wizard and the     *)
(* room of a cell up to its limit, and erases.                             *)

\* the row of the wizard's list that is selected
CreatorItem == cm.list_items[cm.selected_list_item + 1]

\* a field editor of the wizard has the focus
OnCreatorEditor ==
    /\ CreatorWaiting
    /\ popup = None
    /\ py_valid_index(cm.list_items, cm.selected_list_item)
    /\ CreatorItem.tag = "editor"

\* the text of input_buffer that the focused field editor of the wizard edits
FocusIndex ==
    IF cm.state = 1
    THEN 2 * (cm.selected_list_item \div 3) + (IF CreatorItem.field = "start" THEN 1 ELSE 2)
    ELSE IF CreatorItem.field = "name" THEN 1 ELSE 2

\* the length of the text that has the focus, -1 without a focus
FocusLength ==
    IF OnCreatorEditor THEN Len(cm.input_buffer[FocusIndex])
    ELSE IF RoomFocus /\ popup = None THEN Len(tm.input_buffer)
    ELSE -1

\* the typist types q, S, q, S, ... into texts and 3, 4, 3, 4 into numbers,
\* a "/" into the timetable's name or at the start of a subject's name, e
\* where no field has the focus, and any other key anywhere
TypistKeys ==
    {KEY_UP, KEY_DOWN, KEY_LEFT, KEY_ENTER, ESC, KEY_BACKSPACE, DEL, ord("e"),
     ord("q"), ord("S"), ord("3"), ord("4"), ord("/")}

TypistMay(key) ==
    LET n == FocusLength
    IN  IF key \in {ord("q"), ord("S")}
        THEN n = -1 \/ key = (IF n % 2 = 0 THEN ord("q") ELSE ord("S"))
        ELSE IF key \in {ord("3"), ord("4")}
        THEN /\ OnCreatorEditor
             /\ cm.state = 1 \/ (cm.state = 0 /\ CreatorItem.field = "periods")
             /\ key = (IF n % 2 = 0 THEN ord("3") ELSE ord("4"))
        ELSE IF key = ord("/")
        THEN /\ OnCreatorEditor
             /\ CreatorItem.field = "name"
             /\ cm.state = 0 \/ (cm.state = 3 /\ n = 0)
        ELSE IF key = ord("e") THEN n = -1
        ELSE TRUE

\* the typist goes on with the name "q", gives times to the first period
\* only and goes on with the start time "3", saves one subject "q", creates
\* the timetable right after saving a subject, and gives a teacher only to a
\* subject whose name has at most one character
WithinTypist(w, v) ==
    /\ w.cm.state = 0 /\ v.cm.state = 1 => w.cm.input_buffer[1] = <<ord("q")>>
    /\ v.cm.state = 1 => \A i \in 3..Len(v.cm.input_buffer) : v.cm.input_buffer[i] = <<>>
    /\ w.cm.state = 1 /\ v.cm.state = 2 =>
            w.cm.input_buffer[1] = <<ord("3")>> /\ w.cm.input_buffer[2] = <<>>
    /\ Len(v.cm.subjects) <= MaxSubjects
    /\ v.cm.subjects # w.cm.subjects /\ Len(v.cm.subjects) > 0 =>
            w.cm.input_buffer = <<<<ord("q")>>, <<>>>>
    /\ v.tm # None => w.cm.input_buffer = <<>>
    /\ v.cm.state = 3 => Len(v.cm.input_buffer[1]) <= 1 \/ v.cm.input_buffer[2] = <<>>

\* in the View/Edit menu the typist stores no period and picks no subject
WithinRoomTypist(w, v) ==
    /\ v.timetable = w.timetable
    /\ v.tm.selected_subject = None

TypeInWizard ==
    /\ CreatorWaiting
    /\ \E key \in TypistKeys : \E new_id \in Unused(Ids) :
            TypistMay(key) /\ CreatorStep(key, new_id, WithinTypist)

TypeInViewEdit ==
    /\ ViewWaiting
    /\ \E key \in TypistKeys : TypistMay(key) /\ StepWithin(key, WithinRoomTypist)

NextTypist ==
    \/ TypeInWizard
    \/ TypeInViewEdit
    \/ CreatorDismissPopup
    \/ DismissPopup

SpecTypist == InitWizard /\ [][NextTypist]_vars

\* the characters of free text: printable ASCII and the space
FreeText == (33..126) \cup {32}

\* what the focused field editor of the wizard accepts, and its limit
FocusAccepted ==
    IF cm.state = 0
    THEN IF CreatorItem.field = "name" THEN FreeText \ {ord("/")} ELSE ord("3")..ord("6")
    ELSE IF cm.state = 1 THEN ord("0")..ord("9")
    ELSE FreeText

FocusLimit ==
    IF cm.state = 0 /\ CreatorItem.field = "periods" THEN 1
    ELSE IF cm.state = 1 THEN 4
    ELSE max_input_size

\* a field editor's text after the key: one character more for an accepted
\* key below the limit, the last character less for a backspace on a text
\* that is not empty, and the text as it was for anything else
Edited(text, key, accepted, limit) ==
    IF key \in accepted
    THEN IF Len(text) < limit THEN text \o <<key>> ELSE text
    ELSE IF key \in {KEY_BACKSPACE, DEL}
    THEN IF Len(text) > 0 THEN [i \in 1..(Len(text) - 1) |-> text[i]] ELSE text
    ELSE text

\* the keys that the handlers give to the field editor that has the focus
EditorKeys == TypistKeys \ (Enter \cup {ESC, KEY_UP, KEY_DOWN})

\* C15: in every field editor (room, timetable name, number of periods, start
\* and end time, subject name, teacher) a key that the field accepts appends
\* exactly that character when the text is shorter than the field's limit and
\* is rejected at the limit; backspace removes exactly the last character of
\* a text that is not empty and does nothing to an empty one; any other key
\* leaves the text as it is; no other text of the menu changes.
C15_FieldEditors ==
    [][/\ OnCreatorEditor =>
            \A key \in EditorKeys :
                (\E new_id \in Unused(Ids) : CreatorStep(key, new_id, Anything)) =>
                    /\ outcome' = "running"
                    /\ cm'.state = cm.state
                    /\ cm'.selected_list_item = cm.selected_list_item
                    /\ Len(cm'.input_buffer) = Len(cm.input_buffer)
                    /\ \A i \in 1..Len(cm.input_buffer) :
                            cm'.input_buffer[i] =
                                IF i = FocusIndex
                                THEN Edited(cm.input_buffer[i], key, FocusAccepted, FocusLimit)
                                ELSE cm.input_buffer[i]
       /\ RoomFocus /\ popup = None =>
            \A key \in EditorKeys :
                Press(key) =>
                    /\ outcome' = "running"
                    /\ tm'.state = EditingPeriod
                    /\ tm'.selected_list_item = tm.selected_list_item
                    /\ tm'.input_buffer =
                            Edited(tm.input_buffer, key, FreeText, max_input_size)]_vars

\* every field was filled to its limit: the timetable's name and the number
\* of periods, ...
C15_Witness ==
    /\ OnCreatorEditor
    /\ cm.state = 0
    /\ Len(cm.input_buffer[1]) = max_input_size
    /\ Len(cm.input_buffer[2]) = 1

\* ... a start time, ...
FullStartTime ==
    /\ OnCreatorEditor
    /\ cm.state = 1
    /\ Len(cm.input_buffer[1]) = 4

\* ... a subject's name, ...
FullSubjectName ==
    /\ OnCreatorEditor
    /\ cm.state = 3
    /\ Len(cm.input_buffer[1]) = max_input_size

\* ... and the room of a cell
FullRoom ==
    /\ RoomFocus
    /\ Len(tm.input_buffer) = max_input_size

----------------------------------------------------------------------------
(* The subjects that periods refer to: the View/Edit menu on a loaded      *)
(* Timetable and on Timetables of the wizard, whose user stores periods,   *)
(* goes back to the wizard, changes the subject and creates again.         *)

\* the files of this run: two subjects and a period, and no period
ReferenceDocs == {DocTwo, DocRows}

InitReferences == InitWizard \/ (Init /\ file \in ReferenceDocs)

\* in the View/Edit menu this user stays on the first cell of the grid,
\* stores and deletes its period, and types no room
ReferenceKeys == {ord("e"), KEY_ENTER, KEY_DOWN, ESC}

WithinReferenceUser(w, v) ==
    /\ v.tm.selected_period_x = 0
    /\ v.tm.selected_period_y = 0

\* in the wizard this user names the timetable "q", takes 3 periods without
\* times, and names a subject "q" and its teacher "" or "q"
SubjectKeys == {KEY_DOWN, KEY_ENTER, ord("q"), ord("3")}

WithinSubjectUser(w, v) ==
    /\ Len(v.cm.subjects) <= MaxSubjects
    /\ v.cm.input_buffer # w.cm.input_buffer /\ v.cm.state = w.cm.state =>
        LET typed == v.cm.input_buffer
        IN  IF v.cm.state = 0
            THEN typed[1] \in {<<>>, <<ord("q")>>} /\ typed[2] \in {<<>>, <<ord("3")>>}
            ELSE IF v.cm.state = 1 THEN FALSE
            ELSE typed[1] \in {<<>>, <<ord("q")>>} /\ typed[2] \in {<<>>, <<ord("q")>>}

ReferenceViewEdit ==
    /\ ViewWaiting
    /\ \E key \in ReferenceKeys : StepWithin(key, WithinReferenceUser)

\* the id randint gives this user: the least that subjects does not have
LeastId ==
    LET free == {i \in 1..(MaxSubjects + 1) : ~dict_has(cm.subjects, ToString(1000 + i))}
    IN  {ToString(1000 + i) : i \in {j \in free : \A k \in free : j <= k}}

SubjectWizard ==
    /\ CreatorWaiting
    /\ \E key \in SubjectKeys : \E new_id \in LeastId :
            CreatorStep(key, new_id, WithinSubjectUser)

NextReferences ==
    \/ OpenFile
    \/ ReferenceViewEdit
    \/ DismissPopup
    \/ SubjectWizard
    \/ CreatorDismissPopup

SpecReferences == InitReferences /\ [][NextReferences]_vars

\* C16: in every state of the View/Edit menu, on a loaded Timetable and on
\* one that the wizard created, every Period of periods refers to a Subject
\* whose id is a key of the Timetable's subjects, and the Subject is the
\* entry of subjects under that key itself, not a copy of it.
C16_SubjectReferences ==
    ViewWaiting =>
        LET t == TheValue(timetable)
        IN  \A cell \in CellMap(t) :
                /\ dict_has(t.subjects, cell[3].subject.subject_id)
                /\ dict_get(t.subjects, cell[3].subject.subject_id) = Some(cell[3].subject)

\* the wizard's Timetable holds a period of a subject with a teacher, in the
\* View/Edit menu that "Create Timetable" opened
C16_Witness ==
    /\ ViewWaiting
    /\ active = <<"App", "QuickListMenu", "TimetableCreatorMenu", "TimetableMenu">>
    /\ \E cell \in CellMap(TheValue(timetable)) : cell[3].subject.teacher = <<ord("q")>>

\* the wizard's Timetable after its subject was saved again: in the wizard,
\* its periods hold the Subject that subjects no longer has
StalePeriodInWizard ==
    /\ CreatorWaiting
    /\ timetable # None
    /\ \E cell \in CellMap(TheValue(timetable)) :
            dict_get(TheValue(timetable).subjects, cell[3].subject.subject_id)
                # Some(cell[3].subject)

----------------------------------------------------------------------------
(* The first two pages of the wizard: a user who types the name "q" and 3  *)
(* or 4 periods a day, sets and clears "include period 0", types the first *)
(* start time and the last end time, and goes Next and Back between        *)
(* BasicInfo, CreatingPeriodTimes and ViewingSubjects, making no subject.  *)

PeriodsKeys ==
    {KEY_UP, KEY_DOWN, KEY_ENTER, ESC, KEY_BACKSPACE, ord("q"), ord("3"), ord("4"), ord("y"),
     ord("n")}

WithinPeriodsUser(w, v) ==
    /\ v.cm.state # 3
    /\ v.cm.input_buffer # w.cm.input_buffer /\ v.cm.state = w.cm.state =>
        LET typed == v.cm.input_buffer
        IN  IF v.cm.state = 0
            THEN /\ typed[1] \in {<<>>, <<ord("q")>>}
                 /\ typed[2] \in {<<>>, <<ord("3")>>, <<ord("4")>>}
            ELSE /\ typed[1] \in {<<>>, <<ord("3")>>}
                 /\ typed[Len(typed)] \in {<<>>, <<ord("4")>>}
                 /\ \A i \in 2..(Len(typed) - 1) : typed[i] = <<>>

PeriodsKey(state) ==
    /\ CreatorWaiting
    /\ cm.state = state
    /\ \E key \in PeriodsKeys : \E new_id \in LeastId :
            CreatorStep(key, new_id, WithinPeriodsUser)

PeriodsBasicInfo == PeriodsKey(0)

PeriodsCreatingPeriodTimes == PeriodsKey(1)

PeriodsViewingSubjects == PeriodsKey(2)

NextPeriods ==
    \/ PeriodsBasicInfo
    \/ PeriodsCreatingPeriodTimes
    \/ PeriodsViewingSubjects
    \/ CreatorDismissPopup

SpecPeriods == InitWizard /\ [][NextPeriods]_vars

\* the wizard waits in the given state with the list cursor on the row Next
OnNext(state) ==
    /\ CreatorWaiting
    /\ popup = None
    /\ cm.state = state
    /\ py_item(cm.list_items, cm.selected_list_item).tag = "Next"

\* enter, read by the wizard
CreatorEnter ==
    \E key \in Enter : \E new_id \in LeastId : CreatorStep(key, new_id, WithinPeriodsUser)

\* the number that one digit says
DigitValue(text) == text[1] - ord("0")

\* C19: in BasicInfo, enter on Next moves to CreatingPeriodTimes only when
\* the name buffer and the period-count buffer are both non-empty, and then
\* commits the name and num_periods and allocates exactly 2 x num_periods
\* empty time strings; if either buffer is empty the state stays BasicInfo,
\* the buffers and the committed values are unchanged, and a message waits.
C19_BasicInfoNext ==
    [][/\ OnNext(0) /\ CreatorEnter =>
            IF cm.input_buffer[1] # <<>> /\ cm.input_buffer[2] # <<>>
            THEN /\ cm'.state = 1
                 /\ popup' = None
                 /\ cm'.timetable_name = cm.input_buffer[1]
                 /\ Len(cm.input_buffer[2]) = 1
                 /\ cm'.num_periods = DigitValue(cm.input_buffer[2])
                 /\ Len(cm'.input_buffer) = 2 * cm'.num_periods
                 /\ \A i \in 1..Len(cm'.input_buffer) : cm'.input_buffer[i] = <<>>
            ELSE /\ cm'.state = 0
                 /\ popup' # None
                 /\ cm'.input_buffer = cm.input_buffer
                 /\ cm'.timetable_name = cm.timetable_name
                 /\ cm'.num_periods = cm.num_periods
                 /\ cm'.include_period_zero = cm.include_period_zero
                 /\ cm'.period_times = cm.period_times
       /\ cm.state = 0 /\ cm'.state = 1 =>
            /\ OnNext(0)
            /\ cm.input_buffer[1] # <<>>
            /\ cm.input_buffer[2] # <<>>]_vars

\* Next was taken with 4 periods a day after 3 were committed before
C19_Witness ==
    /\ CreatorWaiting
    /\ cm.state = 1
    /\ cm.num_periods = 4
    /\ cm.timetable_name = <<ord("q")>>
    /\ Len(cm.period_times) = 3
    /\ Len(cm.input_buffer) = 8

\* Next was refused for the period count that the user erased after Back
C19_Refused ==
    /\ CreatorWaiting
    /\ cm.state = 0
    /\ popup = Some("Please select the number of periods")
    /\ cm.num_periods = 3
    /\ cm.input_buffer = <<<<ord("q")>>, <<>>>>

\* C20: in CreatingPeriodTimes, enter on Next moves to ViewingSubjects with a
\* period_times mapping of exactly num_periods entries, keyed "0" to
\* "num_periods - 1" in that order, whose entry i is named "Period i" when
\* period 0 is included and "Period i+1" when not, and has start and end
\* buffer[2i] and buffer[2i+1]; so also after Back and Next with another
\* number of periods or another setting of the toggle.
C20_PeriodTimes ==
    [][OnNext(1) /\ CreatorEnter =>
        /\ cm'.state = 2
        /\ Len(cm.input_buffer) = 2 * cm.num_periods
        /\ Len(cm'.period_times) = cm.num_periods
        /\ \A i \in 0..(cm.num_periods - 1) :
            /\ cm'.period_times[i + 1][1] = ToString(i)
            /\ cm'.period_times[i + 1][2].name =
                    period_name(i + (IF cm.include_period_zero THEN 0 ELSE 1))
            /\ cm'.period_times[i + 1][2].start_time = cm.input_buffer[2 * i + 1]
            /\ cm'.period_times[i + 1][2].end_time = cm.input_buffer[2 * i + 2]]_vars

\* the mapping of 3 periods from period 0, made after one of 4 periods from
\* period 1 was made, with the times typed
C20_Witness ==
    /\ CreatorWaiting
    /\ cm.state = 2
    /\ cm.num_periods = 3
    /\ cm.include_period_zero
    /\ Len(cm.period_times) = 3
    /\ cm.period_times[1][2] = PeriodTimeStruct(period_name(0), <<ord("3")>>, <<>>)
    /\ cm.period_times[3][2] = PeriodTimeStruct(period_name(2), <<>>, <<ord("4")>>)

\* this key, read by the wizard of SpecPeriods
PeriodsPress(key) == \E new_id \in LeastId : CreatorStep(key, new_id, WithinPeriodsUser)

\* the two fields of BasicInfo hold the committed name and the committed
\* number of periods
FieldsAsCommitted(m) ==
    /\ Len(m.input_buffer) = 2
    /\ m.input_buffer[1] = m.timetable_name
    /\ Len(m.input_buffer[2]) = 1
    /\ DigitValue(m.input_buffer[2]) = m.num_periods

\* C26: in CreatingPeriodTimes, enter on Back, or esc, returns to BasicInfo
\* with the name field the committed name and the period-count field the
\* committed num_periods; and Next on these fields enters CreatingPeriodTimes
\* again with the same name and the same number of periods.
C26_BackRestores ==
    [][/\ CreatorWaiting /\ popup = None /\ cm.state = 1 =>
            \A key \in Enter \cup {ESC} :
                (key = ESC \/ CreatorRow.tag = "Back") /\ PeriodsPress(key) =>
                    /\ cm'.state = 0
                    /\ cm'.timetable_name = cm.timetable_name
                    /\ cm'.num_periods = cm.num_periods
                    /\ cm'.include_period_zero = cm.include_period_zero
                    /\ cm'.selected_list_item = 0
                    /\ FieldsAsCommitted(cm')
       /\ OnNext(0) /\ FieldsAsCommitted(cm) /\ cm.timetable_name # <<>> /\ CreatorEnter =>
            /\ cm'.state = 1
            /\ cm'.timetable_name = cm.timetable_name
            /\ cm'.num_periods = cm.num_periods
            /\ Len(cm'.input_buffer) = 2 * cm.num_periods]_vars

\* Back gave BasicInfo the fields "q" and "3" after 3 periods a day were
\* committed and their period times made
C26_Witness ==
    /\ CreatorWaiting
    /\ cm.state = 0
    /\ cm.timetable_name = <<ord("q")>>
    /\ cm.num_periods = 3
    /\ Len(cm.period_times) = 3
    /\ cm.selected_list_item = 0
    /\ FieldsAsCommitted(cm)

----------------------------------------------------------------------------
(* Documents that load_file refuses *)

\* the document is a JSON object that lacks a top-level key, or has a subject
\* without a name or a teacher, or a period time without a name, a start or
\* an end
LacksData(f) ==
    /\ f.valid_json
    /\ f.data # None
    /\ LET d == TheValue(f.data)
       IN  \/ \E k \in {"name", "timetable", "subjects", "period_times"} : k \notin DOMAIN d
           \/ /\ "subjects" \in DOMAIN d
              /\ \E i \in 1..Len(d.subjects) :
                    \E k \in {"name", "teacher"} : k \notin DOMAIN d.subjects[i][2]
           \/ /\ "period_times" \in DOMAIN d
              /\ \E i \in 1..Len(d.period_times) :
                    \E k \in {"name", "start", "end"} : k \notin DOMAIN d.period_times[i][2]

\* no Timetable is the current one and no View/Edit menu runs
NothingOpened ==
    /\ current_timetable = None
    /\ timetable = None
    /\ tm = None
    /\ active = <<"App">>

\* C27: loading a document that lacks one of the top-level keys name,
\* timetable, subjects, period_times, or has a subject entry without name or
\* teacher, or a period-time entry without name, start or end, fails with
\* InvalidData; and a load that failed has made no Timetable the current
\* one, not a partial one either, and has opened no View/Edit menu.
C27_LoadValidation ==
    [][/\ LacksData(file) => outcome' = "InvalidDataException"
       /\ outcome' = "InvalidDataException" => NothingOpened /\ NothingOpened']_vars

\* the load of a document whose second period time has no start has failed
C27_Witness ==
    /\ outcome = "InvalidDataException"
    /\ LacksData(file)
    /\ file.data # None
    /\ "period_times" \in DOMAIN TheValue(file.data)
    /\ \E i \in 1..Len(TheValue(file.data).period_times) :
            "start" \notin DOMAIN TheValue(file.data).period_times[i][2]
    /\ NothingOpened

\* each of the documents that lack something has failed to load
EveryLackRefused == \A f \in DocsLacking : LacksData(f) /\ ~load_file(f, FileName).ok

----------------------------------------------------------------------------
(* The wizard with more subjects than the subject editor has rows *)

\* one subject more than display_editing_subject lists rows
ManySubjects == Len(editing_subject_items) + 1

\* the ids randint gives this user: the least or the greatest of those
\* that subjects does not have
ManyIds ==
    LET free == {i \in 1..(ManySubjects + 1) : ~dict_has(cm.subjects, ToString(1000 + i))}
    IN  {ToString(1000 + i) :
            i \in {j \in free : (\A k \in free : j <= k) \/ (\A k \in free : k <= j)}}

\* this user goes forward only, names every subject "q", deletes none, and
\* does not press "Create Timetable" once there are subjects
ManyKeys == {KEY_DOWN, KEY_ENTER, ord("q"), ord("3")}

WithinManySubjects(w, v) ==
    /\ Len(v.cm.subjects) <= ManySubjects
    /\ Len(v.cm.subjects) >= Len(w.cm.subjects)
    /\ v.tm = None
    /\ v.cm.input_buffer # w.cm.input_buffer /\ v.cm.state = w.cm.state =>
        LET typed == v.cm.input_buffer
        IN  IF v.cm.state = 0
            THEN typed[1] \in {<<>>, <<ord("q")>>} /\ typed[2] \in {<<>>, <<ord("3")>>}
            ELSE IF v.cm.state = 1 THEN FALSE
            ELSE typed[1] \in {<<>>, <<ord("q")>>} /\ typed[2] = <<>>

ManyKey ==
    /\ CreatorWaiting
    /\ \E key \in ManyKeys : \E new_id \in ManyIds :
            CreatorStep(key, new_id, WithinManySubjects)

NextManySubjects ==
    \/ ManyKey
    \/ CreatorDismissPopup

SpecManySubjects == InitWizard /\ [][NextManySubjects]_vars

\* C3: in every menu that shows a list, the list is not empty and the
\* selected index is an index of it, 0 <= selected_list_item < len(list_items),
\* at every render and every key dispatch.
C3_SelectionValid ==
    /\ cm # None /\ active[Len(active)] = "TimetableCreatorMenu" =>
            /\ cm.list_items # <<>>
            /\ 0 <= cm.selected_list_item
            /\ cm.selected_list_item < Len(cm.list_items)
    /\ tm # None /\ active[Len(active)] = "TimetableMenu" /\ tm.state \in {2, 3} =>
            /\ tm.list_items # <<>>
            /\ 0 <= tm.selected_list_item
            /\ tm.selected_list_item < Len(tm.list_items)

\* enter on the sixth subject: the subject editor has five rows, and
\* display_list raises IndexError
C3_EditorCrash ==
    /\ cm # None
    /\ cm.state = 3
    /\ cm.selected_list_item = 5
    /\ cm.list_items = editing_subject_items
    /\ outcome = "IndexError"

\* the ids of the subject catalog of the wizard
CatalogIds(m) == {m.subjects[i][1] : i \in 1..Len(m.subjects)}

\* C21: the id that "Create New Subject" gives the subject editor is no key
\* of the subject catalog, so that saving the new subject replaces no entry;
\* every entry of the catalog is keyed by the id of its Subject; opening an
\* existing subject gives the editor that subject's id, and leaving the
\* editor then leaves the ids of the catalog as they were.
C21_SubjectIds ==
    [][CreatorWaiting /\ popup = None /\ outcome' = "running" =>
        /\ cm.state = 2 /\ cm'.state = 3 /\ CreatorRow.tag = "New" =>
                /\ cm'.subject_editing_id # None
                /\ TheValue(cm'.subject_editing_id) \notin CatalogIds(cm')
        /\ cm.state = 2 /\ cm'.state = 3 /\ CreatorRow.tag # "New" =>
                /\ cm'.subject_editing_id =
                        Some(cm.subjects[cm.selected_list_item + 1][1])
                /\ cm'.subjects = cm.subjects
        /\ cm.state = 3 /\ cm'.state = 2 /\ TheValue(cm.subject_editing_id) \notin CatalogIds(cm) =>
                /\ \A i \in 1..Len(cm.subjects) : cm'.subjects[i] = cm.subjects[i]
                /\ CatalogIds(cm') \subseteq CatalogIds(cm) \cup {TheValue(cm.subject_editing_id)}
        /\ cm.state = 3 /\ cm'.state = 2 /\ TheValue(cm.subject_editing_id) \in CatalogIds(cm) =>
                dict_keys(cm'.subjects) = dict_keys(cm.subjects)
        /\ \A i \in 1..Len(cm'.subjects) :
                /\ cm'.subjects[i][2].subject_id = cm'.subjects[i][1]
                /\ \A j \in 1..Len(cm'.subjects) :
                        cm'.subjects[j][1] = cm'.subjects[i][1] => j = i]_vars

\* a second subject was saved under a new id, and then the first was opened
\* again and left: the catalog has both, under their two ids
C21_Witness ==
    /\ CreatorWaiting
    /\ cm.state = 2
    /\ Len(cm.subjects) >= 2
    /\ cm.subject_editing_id = Some(cm.subjects[1][1])
    /\ cm.subjects[1][1] # cm.subjects[2][1]

\* the subject editor of the wizard waits with the list cursor on this row
OnSubjectRow(tag) ==
    /\ CreatorWaiting
    /\ popup = None
    /\ cm.state = 3
    /\ CreatorRow.tag = tag

\* this key, read by the wizard
ManyPress(key) == \E new_id \in ManyIds : CreatorStep(key, new_id, WithinManySubjects)

\* the entries of the catalog other than the one of this id are as before
OthersKept(id) ==
    \A k \in CatalogIds(cm) \ {id} :
        /\ k \in CatalogIds(cm')
        /\ dict_get(cm'.subjects, k) = dict_get(cm.subjects, k)

\* C22: in EditingSubject, enter on Save with a non-empty name buffer sets
\* catalog[editing id] to the Subject of the editing id, the name buffer and
\* the teacher buffer, changes no other entry of the catalog and moves to
\* ViewingSubjects; with an empty name buffer the state stays EditingSubject
\* and the catalog and the buffers are unchanged, and a message waits.
C22_SubjectSave ==
    [][OnSubjectRow("Save") =>
        \A key \in Enter : ManyPress(key) =>
            LET id == TheValue(cm.subject_editing_id)
            IN  IF cm.input_buffer[1] # <<>>
                THEN /\ cm'.state = 2
                     /\ popup' = None
                     /\ CatalogIds(cm') = CatalogIds(cm) \cup {id}
                     /\ TheValue(dict_get(cm'.subjects, id)).subject_id = id
                     /\ TheValue(dict_get(cm'.subjects, id)).name = cm.input_buffer[1]
                     /\ TheValue(dict_get(cm'.subjects, id)).teacher = cm.input_buffer[2]
                     /\ OthersKept(id)
                ELSE /\ cm'.state = 3
                     /\ popup' = Some("Please enter a name for the period.")
                     /\ cm'.subjects = cm.subjects
                     /\ cm'.input_buffer = cm.input_buffer
                     /\ cm'.subject_editing_id = cm.subject_editing_id]_vars

\* Save was refused for a new subject without a name while the catalog has
\* a subject
C22_Witness ==
    /\ CreatorWaiting
    /\ cm.state = 3
    /\ popup = Some("Please enter a name for the period.")
    /\ cm.input_buffer[1] = <<>>
    /\ Len(cm.subjects) >= 1
    /\ TheValue(cm.subject_editing_id) \notin CatalogIds(cm)

\* a third subject was saved
ThirdSubjectSaved ==
    /\ CreatorWaiting
    /\ cm.state = 2
    /\ Len(cm.subjects) = 3
    /\ cm.subject_editing_id = Some(cm.subjects[3][1])
    /\ cm.subjects[3][2].name = <<ord("q")>>
----------------------------------------------------------------------------
(* Leaving the subject editor of the wizard, and creating the Timetable *)

\* this key, read by the wizard of SpecWizard
WizardPress(key) == \E new_id \in Unused(Ids) : CreatorStep(key, new_id, WithinWizardUser)

\* C23: leaving EditingSubject by Delete removes the entry of the editing id
\* from the catalog and no other, and nothing when the subject is new and was
\* never saved; leaving by Back or by esc leaves the catalog as it was when
\* the editor was entered, whatever was typed; all three move to
\* ViewingSubjects.
C23_DeleteAndDiscard ==
    [][CreatorWaiting /\ popup = None /\ cm.state = 3 =>
        LET id == TheValue(cm.subject_editing_id)
        IN  /\ CreatorRow.tag = "Delete" =>
                \A key \in Enter : WizardPress(key) =>
                    /\ cm'.state = 2
                    /\ CatalogIds(cm') = CatalogIds(cm) \ {id}
                    /\ OthersKept(id)
                    /\ id \notin CatalogIds(cm) => cm'.subjects = cm.subjects
            /\ CreatorRow.tag = "Back" =>
                \A key \in Enter : WizardPress(key) =>
                    cm'.state = 2 /\ cm'.subjects = cm.subjects
            /\ WizardPress(ESC) => cm'.state = 2 /\ cm'.subjects = cm.subjects
            /\ cm'.state = 3 => cm'.subjects = cm.subjects]_vars

\* esc left the editor of a new subject with the name "q" typed, while the
\* catalog has a subject: the catalog is as it was
C23_Witness ==
    /\ CreatorWaiting
    /\ cm.state = 2
    /\ cm.input_buffer = <<<<ord("q")>>, <<>>>>
    /\ Len(cm.subjects) = 1
    /\ TheValue(cm.subject_editing_id) \notin CatalogIds(cm)

\* Delete removed the one subject of a catalog that a Timetable was created
\* from
DeletedExisting ==
    /\ CreatorWaiting
    /\ cm.state = 2
    /\ cm.input_buffer = <<>>
    /\ Len(cm.subjects) = 0
    /\ timetable # None
\* a user who names the timetable "Q", "Q " or "Q q", goes forward only,
\* saves one subject "q", creates the Timetable, and looks at it
CreateKeys == {KEY_DOWN, KEY_ENTER, ord("Q"), ord(" "), ord("q"), ord("3")}

T_Q_q == <<ord("Q"), ord(" "), ord("q")>>

WithinCreateUser(w, v) ==
    /\ v.cm.subjects # w.cm.subjects => Len(w.cm.subjects) = 0
    /\ v.cm.state # w.cm.state => v.cm.state = w.cm.state + 1 \/ w.cm.state = 3
    /\ v.cm.input_buffer # w.cm.input_buffer /\ v.cm.state = w.cm.state =>
        LET typed == v.cm.input_buffer
        IN  IF v.cm.state = 0
            THEN /\ \E n \in 0..3 : typed[1] = SubSeq(T_Q_q, 1, n)
                 /\ typed[2] \in {<<>>, <<ord("3")>>}
            ELSE IF v.cm.state = 1 THEN FALSE
            ELSE typed[1] \in {<<>>, <<ord("q")>>} /\ typed[2] = <<>>

CreatePress(key) == \E new_id \in LeastId : CreatorStep(key, new_id, WithinCreateUser)

CreateKey == CreatorWaiting /\ \E key \in CreateKeys : CreatePress(key)

CreateViewEdit ==
    /\ ViewWaiting
    /\ \E key \in {ESC, ord("e")} : StepWithin(key, Anything)

NextCreate ==
    \/ CreateKey
    \/ CreateViewEdit
    \/ CreatorDismissPopup

SpecCreate == InitWizard /\ [][NextCreate]_vars

\* the file path of a Timetable of this name: the data directory, the name
\* with its capitals made small and its spaces made underscores, and ".json"
PathOfName(path, name) ==
    /\ Len(path) = 3
    /\ path[1] = "data/"
    /\ path[3] = ".json"
    /\ Len(path[2]) = Len(name)
    /\ \A i \in 1..Len(name) :
        path[2][i] = IF name[i] \in ord("A")..ord("Z") THEN name[i] + (ord("a") - ord("A"))
                     ELSE IF name[i] = ord(" ") THEN ord("_")
                     ELSE name[i]

\* the wizard waits in ViewingSubjects on the row "Create Timetable" with a
\* subject in its catalog
CreateWithSubjects ==
    /\ CreatorWaiting
    /\ popup = None
    /\ cm.state = 2
    /\ CreatorRow.tag = "Create"
    /\ Len(cm.subjects) >= 1

\* C24: with at least one subject, enter on "Create Timetable" constructs a
\* Timetable whose day-slots are six empty mappings, whose subjects and
\* period_times are the catalog and the period times of the wizard, whose
\* name is the committed name and whose file path is the data directory, the
\* lower-cased name with underscores for its spaces, and ".json"; and the
\* View/Edit menu starts on that Timetable in Viewing.
C24_CreateTimetable ==
    [][CreateWithSubjects =>
        \A key \in Enter : CreatePress(key) =>
            /\ outcome' = "running"
            /\ timetable' # None
            /\ LET t == TheValue(timetable')
               IN  /\ Len(t.periods) = 6
                   /\ \A i \in 1..6 : t.periods[i] = <<i - 1, <<>>>>
                   /\ t.subjects = cm.subjects
                   /\ t.period_times = cm.period_times
                   /\ t.name = cm.timetable_name
                   /\ PathOfName(t.filename, cm.timetable_name)
            /\ cm' = cm
            /\ active' = Append(active, "TimetableMenu")
            /\ tm' # None
            /\ tm'.state = Viewing
            /\ popup' = None
            /\ written' = None]_vars

\* the View/Edit menu is in Viewing on the Timetable "Q q" of the wizard,
\* whose file is data/q_q.json
C24_Witness ==
    /\ ViewWaiting
    /\ cm # None
    /\ tm.state = Viewing
    /\ TheValue(timetable).name = T_Q_q
    /\ TheValue(timetable).filename = <<"data/", <<ord("q"), ord("_"), ord("q")>>, ".json">>
    /\ Len(TheValue(timetable).subjects) = 1
    /\ Len(TheValue(timetable).period_times) = 3
----------------------------------------------------------------------------
(* The states of the wizard and the edges between them *)

BasicInfo == 0

CreatingPeriodTimes == 1

ViewingSubjects == 2

EditingSubject == 3

WizardExiting == -1

\* enter on the row of this tag, or, where the row is a subject's, enter on
\* a subject
EnterOn(key, tag) ==
    /\ key \in Enter
    /\ CreatorRow.tag = tag

\* the edge from state `from` to state `to` that the key may take, given the
\* row the list cursor is on and the buffers
WizardEdge(from, key, to) ==
    \/ /\ from = BasicInfo /\ to = CreatingPeriodTimes
       /\ EnterOn(key, "Next")
       /\ cm.input_buffer[1] # <<>>
       /\ cm.input_buffer[2] # <<>>
    \/ /\ from = BasicInfo /\ to = WizardExiting
       /\ key = ESC \/ EnterOn(key, "Back")
    \/ /\ from = CreatingPeriodTimes /\ to = BasicInfo
       /\ key = ESC \/ EnterOn(key, "Back")
    \/ /\ from = CreatingPeriodTimes /\ to = ViewingSubjects
       /\ EnterOn(key, "Next")
    \/ /\ from = ViewingSubjects /\ to = CreatingPeriodTimes
       /\ key = ESC \/ EnterOn(key, "Back")
    \/ /\ from = ViewingSubjects /\ to = EditingSubject
       /\ EnterOn(key, "New") \/ (key \in Enter /\ CreatorRow.subject # None)
    \/ /\ from = EditingSubject /\ to = ViewingSubjects
       /\ \/ key = ESC
          \/ EnterOn(key, "Delete")
          \/ EnterOn(key, "Back")
          \/ EnterOn(key, "Save") /\ cm.input_buffer[1] # <<>>

WizardStates == {BasicInfo, CreatingPeriodTimes, ViewingSubjects, EditingSubject, WizardExiting}

\* C25: the wizard starts in BasicInfo; a key changes its state by at most
\* one of the edges BasicInfo to CreatingPeriodTimes (valid Next), BasicInfo
\* to Exiting (Back, esc), CreatingPeriodTimes to BasicInfo (Back, esc),
\* CreatingPeriodTimes to ViewingSubjects (Next), ViewingSubjects to
\* CreatingPeriodTimes (Back, esc), ViewingSubjects to EditingSubject (New,
\* enter on a subject), EditingSubject to ViewingSubjects (Delete, valid
\* Save, Back, esc), and each of these keys does take its edge; the state
\* changes in no other way, and Exiting is entered from BasicInfo only.
C25_WizardTransitions ==
    /\ cm # None /\ cm.state = BasicInfo
    /\ [][/\ cm'.state # cm.state =>
                /\ CreatorWaiting
                /\ popup = None
                /\ \E key \in WizardKeys :
                        WizardPress(key) /\ WizardEdge(cm.state, key, cm'.state)
          /\ CreatorWaiting /\ popup = None =>
                \A key \in Enter \cup {ESC} : \A to \in WizardStates :
                    WizardEdge(cm.state, key, to) /\ WizardPress(key) /\ outcome' = "running"
                        => cm'.state = to
          /\ cm'.state = WizardExiting /\ cm.state # WizardExiting => cm.state = BasicInfo
          /\ cm.state = WizardExiting => ~CreatorWaiting]_vars

\* the wizard went the whole way, to the subject editor and back to
\* ViewingSubjects with a subject saved, and a Timetable was created
C25_Witness ==
    /\ CreatorWaiting
    /\ cm.state = ViewingSubjects
    /\ Len(cm.subjects) = 1
    /\ timetable # None

\* the wizard left from BasicInfo after it had been in CreatingPeriodTimes
LeftFromBasicInfo ==
    /\ cm # None
    /\ cm.state = WizardExiting
    /\ cm.timetable_name # <<>>
----------------------------------------------------------------------------
(* The wizard while the View/Edit menu that it started runs *)

\* the View/Edit menu that "Create Timetable" started is waiting for a key
NestedWaiting ==
    /\ ViewWaiting
    /\ Len(active) > 1
    /\ active[Len(active) - 1] = "TimetableCreatorMenu"

\* C29: while the View/Edit menu that "Create Timetable" of the wizard
\* started is active, the wizard takes no key, and its state, its subject
\* catalog and its period times do not change; when the View/Edit menu
\* reaches Exiting the wizard goes on in ViewingSubjects with the same
\* catalog, and no sooner.
C29_CallerSuspended ==
    [][NestedWaiting =>
        /\ cm.state = ViewingSubjects
        /\ cm'.state = ViewingSubjects
        /\ cm'.subjects = cm.subjects
        /\ cm'.period_times = cm.period_times
        /\ cm'.timetable_name = cm.timetable_name
        /\ cm'.num_periods = cm.num_periods
        /\ cm'.input_buffer = cm.input_buffer
        /\ \/ /\ outcome' = "running"
              /\ active' = active
              /\ tm' # None
              /\ tm'.state # Exiting
              /\ cm' = cm
           \/ /\ outcome' = "running"
              /\ active' = SubSeq(active, 1, Len(active) - 1)
              /\ tm.state = Viewing
              /\ tm' = None
              /\ popup' = None
              /\ timetable' = timetable
              /\ \E key \in NestedKeys : key = ESC /\ StepWithin(key, WithinNestedUser)
           \/ /\ outcome' = "ExitCurses"
              /\ active' = active
              /\ cm' = cm]_vars

\* the wizard waits again in ViewingSubjects after the View/Edit menu that it
\* started has returned
C29_Witness ==
    /\ CreatorWaiting
    /\ cm.state = ViewingSubjects
    /\ timetable # None
    /\ tm = None
    /\ popup = None
    /\ Len(cm.subjects) = 1
    /\ cm.selected_list_item = Len(cm.subjects) + 1

\* the View/Edit menu of the wizard is in its period editor
NestedInPeriodEditor ==
    /\ NestedWaiting
    /\ tm.state = EditingPeriod
----------------------------------------------------------------------------
(* Saving to a disk that may fail: open() of save_file raises OSError and   *)
(* nothing is written, or write() raises it and the file is cut short; no  *)
(* handler between save_file and the end of the program catches it.         *)

Disks == {"ok", "refused", "cut"}

\* what the step did to the file: nothing, or a beginning of the JSON text
cut_short(self) ==
    [filename |-> self.filename, content |-> [valid_json |-> FALSE, data |-> None]]

\* a process_input that goes on to the confirmation when save_file raised
process_input_disk_swallowing(w, key, disk) ==
    IF takes_save(w.tm, key) /\ disk # "ok"
    THEN [w EXCEPT !.popup = Some("Successfully Saved Timetable")]
    ELSE process_input(w, key)

\* TimetableMenu.process_input on a disk in this condition
process_input_disk(w, key, disk) ==
    IF takes_save(w.tm, key) /\ disk = "refused" THEN Raise(w, "OSError")
    ELSE IF takes_save(w.tm, key) /\ disk = "cut"
    THEN Raise([w EXCEPT !.written = Some(cut_short(w.timetable))], "OSError")
    ELSE process_input(w, key)

\* this user picks subjects and types "s" or "S" as a room, stores no
\* period, and saves wherever the menu takes the key
DiskKeys == {ord("e"), KEY_ENTER, KEY_DOWN, ESC, ord("s"), ord("S")}

\* one key read by the getch() of TimetableMenu.display, on such a disk
DiskStep(key, disk) ==
    /\ popup = None
    /\ \E w \in {World} : \E v \in {until_getch(process_input_disk(w, key, disk))} :
            /\ WithinNestedUser(w, v)
            /\ Commit(v)
            /\ UNCHANGED <<file, current_timetable, menus>>

DiskViewEdit == ViewWaiting /\ \E key \in DiskKeys : \E disk \in Disks : DiskStep(key, disk)

NextDisk ==
    \/ OpenFile
    \/ DiskViewEdit
    \/ DismissPopup

SpecDisk == Init /\ [][NextDisk]_vars

\* C30: a save, whether it succeeds or fails, leaves the Timetable in memory
\* (periods, subjects, period times, name), the state of the menu, the
\* cursor and the pending subject and room buffer as they were; and the
\* message "Successfully Saved Timetable" is shown only by a step whose save
\* completed, never by one whose save raised.
C30_SaveFrame ==
    [][/\ ViewWaiting /\ popup = None =>
            \A key \in DiskKeys : takes_save(tm, key) =>
                \A disk \in Disks : DiskStep(key, disk) =>
                    /\ timetable' = timetable
                    /\ tm' = tm
                    /\ IF disk = "ok"
                       THEN /\ outcome' = "running"
                            /\ written' = Some(save_file(TheValue(timetable)))
                            /\ popup' = Some("Successfully Saved Timetable")
                       ELSE /\ outcome' = "OSError"
                            /\ popup' = None
       /\ popup' = Some("Successfully Saved Timetable") =>
            /\ outcome' = "running"
            /\ written' = Some(save_file(TheValue(timetable)))]_vars

\* a save failed in the period editor with a subject pending and a room
\* typed: the program has ended with them as they were
C30_Witness ==
    /\ outcome = "OSError"
    /\ tm # None
    /\ tm.state = EditingPeriod
    /\ tm.selected_subject # None
    /\ tm.input_buffer # <<>>
    /\ popup = None

\* the same save on a disk that takes it
SavedWithPending ==
    /\ ViewWaiting
    /\ tm.state = EditingPeriod
    /\ tm.selected_subject # None
    /\ tm.input_buffer # <<>>
    /\ popup = Some("Successfully Saved Timetable")
----------------------------------------------------------------------------
(* The program from its main menu: the two QuickListMenu objects of App,   *)
(* the wizard and the View/Edit menus they start                           *)

\* QuickListMenu.display: what one key does to the menu m: "return",
\* "call" of the item[1] of the selected row, "ExitCurses", or "loop"
QuickListMenu_key(m, key) ==
    IF key = KEY_ENTER
    THEN IF py_item(m.list_items, m.selected_list_item).tag = "Exit"
         THEN [m |-> m, does |-> "return"]
         ELSE [m |-> m, does |-> "call"]
    ELSE IF key = ord("q") THEN [m |-> m, does |-> "ExitCurses"]
    ELSE IF key = ESC THEN [m |-> m, does |-> "return"]
    ELSE IF key = KEY_UP THEN [m |-> navigate_list(m, -1), does |-> "loop"]
    ELSE IF key = KEY_DOWN THEN [m |-> navigate_list(m, 1), does |-> "loop"]
    ELSE [m |-> m, does |-> "loop"]

\* what the loop of QuickListMenu.display draws before getch()
quick_screen(m) == Some(display_list_rows(m))

\* the loop of the QuickListMenu that called a menu turns when that menu
\* has returned
back_in_quick_menu(w) ==
    IF w.outcome = "running" /\ w.active[Len(w.active)] = "QuickListMenu"
    THEN [w EXCEPT !.screen = quick_screen(TheValue(menus).main)]
    ELSE IF w.outcome = "running" /\ w.active[Len(w.active)] = "files_menu"
    THEN [w EXCEPT !.screen = quick_screen(TheValue(menus).files)]
    ELSE w

\* main_menu.display() waits in getch(), no opt_file given
InitApp ==
    /\ file = None
    /\ current_timetable = None
    /\ written = None
    /\ tm = None
    /\ cm = None
    /\ timetable = None
    /\ outcome = "running"
    /\ active = <<"App", "QuickListMenu">>
    /\ popup = None
    /\ menus = Some(main_menu_init)
    /\ screen = quick_screen(main_menu_init.main)

MainWaiting == outcome = "running" /\ active = <<"App", "QuickListMenu">>

FilesWaiting == outcome = "running" /\ active = <<"App", "QuickListMenu", "files_menu">>

AppKeys == {KEY_UP, KEY_DOWN, KEY_ENTER, ESC, ord("q"), ord("Q")}

\* one key read by the getch() of main_menu.display
MainKey(key) ==
    /\ MainWaiting
    /\ LET took == QuickListMenu_key(TheValue(menus).main, key)
           called == py_item(took.m.list_items, took.m.selected_list_item).tag
       IN  IF took.does = "ExitCurses"
           THEN /\ outcome' = "ExitCurses"
                /\ UNCHANGED <<file, written, active, timetable, current_timetable, tm,
                               cm, popup, screen, menus>>
           ELSE IF took.does = "return"
           THEN /\ outcome' = "returned"
                /\ active' = <<>>
                /\ screen' = None
                /\ UNCHANGED <<file, written, timetable, current_timetable, tm, cm, popup,
                               menus>>
           ELSE IF took.does = "call" /\ called = "files_menu.display"
           THEN /\ active' = Append(active, "files_menu")
                /\ screen' = quick_screen(TheValue(menus).files)
                /\ UNCHANGED <<file, written, outcome, timetable, current_timetable, tm,
                               cm, popup, menus>>
           ELSE IF took.does = "call"
           THEN /\ CommitCreator(creator_display(
                        [tm |-> None, cm |-> TimetableCreatorMenu_init, timetable |-> None,
                         outcome |-> outcome,
                         active |-> Append(active, "TimetableCreatorMenu"),
                         popup |-> None, written |-> None, screen |-> None]))
                /\ UNCHANGED <<file, current_timetable, menus>>
           ELSE /\ menus' = Some([TheValue(menus) EXCEPT !.main = took.m])
                /\ screen' = quick_screen(took.m)
                /\ UNCHANGED <<file, written, outcome, active, timetable,
                               current_timetable, tm, cm, popup>>

\* one key read by the getch() of files_menu.display; a file item calls
\* App.open_file with its file
FilesKey(key) ==
    /\ FilesWaiting
    /\ LET took == QuickListMenu_key(TheValue(menus).files, key)
           called == py_item(took.m.list_items, took.m.selected_list_item).tag
       IN  IF took.does = "ExitCurses"
           THEN /\ outcome' = "ExitCurses"
                /\ UNCHANGED <<file, written, active, timetable, current_timetable, tm,
                               cm, popup, screen, menus>>
           ELSE IF took.does = "return"
           THEN /\ active' = <<"App", "QuickListMenu">>
                /\ screen' = quick_screen(TheValue(menus).main)
                /\ UNCHANGED <<file, written, outcome, timetable, current_timetable, tm,
                               cm, popup, menus>>
           ELSE IF took.does = "call" /\ called = "open_file"
           THEN LET opened == DataDir[took.m.selected_list_item + 1]
                    loaded == load_file(opened, FileName)
                IN  /\ file' = opened
                    /\ IF ~loaded.ok
                       THEN /\ outcome' = loaded.error
                            /\ UNCHANGED <<written, active, timetable, current_timetable,
                                           tm, cm, popup, screen, menus>>
                       ELSE /\ current_timetable' = Some(loaded.timetable)
                            /\ Commit(open_menu(
                                    [tm |-> None, cm |-> cm, timetable |-> None,
                                     outcome |-> outcome, active |-> active,
                                     popup |-> None, written |-> None, screen |-> None],
                                    loaded.timetable))
                            /\ UNCHANGED menus
           ELSE IF took.does = "call"
           THEN UNCHANGED vars
           ELSE /\ menus' = Some([TheValue(menus) EXCEPT !.files = took.m])
                /\ screen' = quick_screen(took.m)
                /\ UNCHANGED <<file, written, outcome, active, timetable,
                               current_timetable, tm, cm, popup>>

\* one key read by the getch() of the wizard that the main menu started; its
\* user is the one who goes forward only, or leaves the wizard
AppCreatorKey(key) ==
    /\ CreatorWaiting
    /\ popup = None
    /\ \E new_id \in LeastId : \E w \in {CreatorWorld} :
        \E v \in {creator_until_getch(creator_process_input(w, key, new_id))} :
            /\ WithinCreateUser(w, v) \/ v.cm.state = -1
            /\ CommitCreator(back_in_quick_menu(v))
            /\ UNCHANGED <<file, current_timetable, menus>>

\* one key read by the getch() of a View/Edit menu, that of open_file or
\* that of the wizard
AppViewKey(key) ==
    /\ ViewWaiting
    /\ popup = None
    /\ \E w \in {World} : \E v \in {until_getch(process_input(w, key))} :
            /\ IF v.outcome = "running" /\ v.active[Len(v.active)] = "TimetableCreatorMenu"
               THEN CommitCreator(back_in_creator(v))
               ELSE Commit(back_in_quick_menu(v))
            /\ UNCHANGED <<file, current_timetable, menus>>

AppPress(key) ==
    \/ MainKey(key)
    \/ FilesKey(key)
    \/ AppCreatorKey(key)
    \/ AppViewKey(key)

MainMenu == \E key \in AppKeys : MainKey(key)

FilesMenu == \E key \in AppKeys : FilesKey(key)

AppCreator == \E key \in CreateKeys \cup {ESC} : AppCreatorKey(key)

AppViewEdit == \E key \in {ESC, ord("e"), ord("q"), ord("Q")} : AppViewKey(key)

NextApp ==
    \/ MainMenu
    \/ FilesMenu
    \/ AppCreator
    \/ AppViewEdit
    \/ CreatorDismissPopup

SpecApp == InitApp /\ [][NextApp]_vars

\* the menu that waits in getch() takes this key as the quit key
QuitAccepted(key) ==
    /\ outcome = "running"
    /\ popup = None
    /\ \/ (MainWaiting \/ FilesWaiting) /\ key = ord("q")
       \/ CreatorWaiting /\ key \in {ord("q"), ord("Q")} /\ cm.editing = FALSE
       \/ ViewWaiting /\ key \in {ord("q"), ord("Q")} /\ tm.editing = FALSE

\* ExitCurses has left every display() of the stack
Unwound == outcome = "ExitCurses"

\* C28: a quit key accepted by the menu that waits in getch(), whichever menu
\* it is and whichever menus called it, raises ExitCurses out of every menu:
\* no menu object, Timetable or file changes in that step, and after it no
\* menu takes a key or changes anything
C28_UserExit ==
    [][/\ \A key \in AppKeys :
            QuitAccepted(key) /\ AppPress(key) =>
                /\ Unwound'
                /\ UNCHANGED <<tm, cm, menus, timetable, current_timetable, file, active>>
                /\ written' = None
       /\ ~Unwound]_vars

\* the quit key was taken by a View/Edit menu that the wizard started
C28_Witness ==
    /\ Unwound
    /\ active = <<"App", "QuickListMenu", "TimetableCreatorMenu", "TimetableMenu">>

\* the quit key was taken by the files menu, and by a View/Edit menu that
\* open_file started
UnwoundFromFiles ==
    /\ Unwound
    /\ active = <<"App", "QuickListMenu", "files_menu">>

UnwoundFromOpenedFile ==
    /\ Unwound
    /\ active = <<"App", "QuickListMenu", "files_menu", "TimetableMenu">>
    /\ tm.state = 1
\* the wizard returned to the main menu, which drew its list again
WizardLeftToMainMenu ==
    /\ MainWaiting
    /\ cm # None
    /\ cm.state = -1
    /\ screen = quick_screen(TheValue(menus).main)
----------------------------------------------------------------------------
(* What the View/Edit menu may change of its Timetable *)

\* the cells of the Timetable away from the cursor
OtherCells(t) == {cell \in CellMap(t) : ~AtCursor(cell)}

\* the step changed the periods of the Timetable
PeriodsChanged == TheValue(timetable').periods # TheValue(timetable).periods

----------------------------------------------------------------------------
(* The texts of the wizard's fields: a user who types into every field     *)
(* characters that the field takes and characters that it does not         *)

FieldsKeys ==
    {KEY_DOWN, KEY_ENTER, ESC, KEY_BACKSPACE, ord("q"), ord("/"), ord("3"), ord("7"), ord(":")}

T_33333 == <<ord("3"), ord("3"), ord("3"), ord("3"), ord("3")>>

\* what this user tries to type: the name "q/", one character as the number
\* of periods, the start time "33333" or "3:" and the end time "7q" of the
\* first period, the end time "7" of the last, a subject "q"; the user saves
\* at most one subject and creates no Timetable
WithinFieldsUser(w, v) ==
    /\ Len(v.cm.subjects) <= 1
    /\ v.timetable = None
    /\ v.cm.input_buffer # w.cm.input_buffer /\ v.cm.state = w.cm.state =>
        LET typed == v.cm.input_buffer
        IN  IF v.cm.state = 0
            THEN /\ typed[1] \in Prefixes({<<ord("q"), ord("/")>>})
                 /\ Len(typed[2]) <= 1
            ELSE IF v.cm.state = 1
            THEN /\ typed[1] \in Prefixes({T_33333, <<ord("3"), ord(":")>>})
                 /\ typed[2] \in Prefixes({<<ord("7"), ord("q")>>})
                 /\ typed[Len(typed)] \in {<<>>, <<ord("7")>>}
                 /\ \A i \in 3..(Len(typed) - 1) : typed[i] = <<>>
            ELSE typed[1] \in {<<>>, <<ord("q")>>} /\ typed[2] = <<>>

FieldsPress(key) == \E new_id \in LeastId : CreatorStep(key, new_id, WithinFieldsUser)

FieldsKey == CreatorWaiting /\ \E key \in FieldsKeys : FieldsPress(key)

NextFields ==
    \/ FieldsKey
    \/ CreatorDismissPopup

SpecFields == InitWizard /\ [][NextFields]_vars

\* a text that the timetable's name may be
IsNameText(text) ==
    /\ Len(text) <= max_input_size
    /\ \A i \in 1..Len(text) : text[i] # ord("/")

\* a text that a start or an end time may be
IsTimeText(text) ==
    /\ Len(text) <= 4
    /\ \A i \in 1..Len(text) : text[i] \in ord("0")..ord("9")

\* C32: in every state of the wizard self.timetable_name has no "/" and at
\* most max_input_size characters, self.num_periods is 3, 4, 5 or 6, and
\* every start and end time, those of input_buffer in CreatingPeriodTimes and
\* those of self.period_times, has at most 4 characters, all of them digits.
C32_FieldAlphabets ==
    /\ IsNameText(cm.timetable_name)
    /\ cm.num_periods \in 3..6
    /\ cm.state = 1 => \A i \in 1..Len(cm.input_buffer) : IsTimeText(cm.input_buffer[i])
    /\ \A i \in 1..Len(cm.period_times) :
            /\ IsTimeText(cm.period_times[i][2].start_time)
            /\ IsTimeText(cm.period_times[i][2].end_time)

\* the name "q", 3 periods and the times "3333" and "7" were committed
\* after "/", "7" and ":", a fifth "3" and "q" were typed into them
C32_Witness ==
    /\ cm.state = 2
    /\ cm.timetable_name = <<ord("q")>>
    /\ cm.num_periods = 3
    /\ cm.period_times[1][2].start_time = SubSeq(T_33333, 1, 4)
    /\ cm.period_times[1][2].end_time = <<ord("7")>>
----------------------------------------------------------------------------
(* self.editing, the flag that keeps the shortcuts from a field editor *)

\* self.editing of the menu that waits in getch() is TRUE exactly on a row
\* with the tag "editor"
EditingFlag ==
    /\ ViewWaiting /\ popup = None =>
            tm.editing = (/\ tm.state = EditingPeriod
                          /\ py_item(tm.list_items, tm.selected_list_item) = EditorRow("room"))
    /\ CreatorWaiting /\ popup = None => cm.editing = (CreatorItem.tag = "editor")

\* in Viewing, Editing and SelectingSubject q and Q quit and s and S save
ShortcutsTaken ==
    ViewWaiting /\ popup = None /\ tm.state \in {Viewing, Editing, SelectingSubject} =>
        /\ \A key \in {ord("q"), ord("Q")} : Press(key) => outcome' = "ExitCurses"
        /\ \A key \in {ord("s"), ord("S")} :
                Press(key) => popup' = Some("Successfully Saved Timetable") /\ written' # None

\* C33: whenever the View/Edit menu reads a key, self.editing is TRUE exactly
\* when the state is EditingPeriod and the selected row is the Room editor,
\* so in Viewing, Editing and SelectingSubject q/Q and s/S are taken as
\* shortcuts; whenever the wizard reads a key, self.editing is TRUE exactly
\* when the selected row of the list of its state has the tag "editor".
C33_EditorFocus == [](EditingFlag) /\ [][ShortcutsTaken]_vars

\* the View/Edit menu is back on the grid after esc on the Room editor
C33_Witness ==
    /\ ViewWaiting
    /\ tm.state = Editing
    /\ tm.selected_list_item = 1
    /\ tm.list_items = editing_period_items
    /\ tm.editing = FALSE

\* the wizard waits on a row that is no field editor, and on one that is
WizardOffEditor ==
    /\ CreatorWaiting
    /\ cm.state = 1
    /\ CreatorItem.tag = "title"
    /\ cm.editing = FALSE

WizardOnEditor ==
    /\ CreatorWaiting
    /\ cm.state = 3
    /\ CreatorItem.field = "teacher"
    /\ cm.editing = TRUE
----------------------------------------------------------------------------
(* The list cursor when a menu changes the list it shows *)

\* the wizard moved to another state that shows a list
WizardListReplaced ==
    /\ CreatorWaiting
    /\ cm'.state # cm.state
    /\ cm'.state # WizardExiting

\* the View/Edit menu moved to EditingPeriod or to SelectingSubject
ViewListReplaced ==
    /\ ViewWaiting
    /\ tm' # None
    /\ tm'.state # tm.state
    /\ tm'.state \in {EditingPeriod, SelectingSubject}

\* C34: every step of either menu that moves it to a state with another
\* list (EditingPeriod, SelectingSubject, any state of the wizard) leaves
\* selected_list_item at 0, the first row of the new list.
C34_CursorReset ==
    [][/\ WizardListReplaced => cm'.selected_list_item = 0
       /\ ViewListReplaced => tm'.selected_list_item = 0]_vars

\* enter on the third subject opened the subject editor with the cursor on
\* its third row, Delete
C34_EditorOnDelete ==
    /\ CreatorWaiting
    /\ popup = None
    /\ cm.state = EditingSubject
    /\ cm.selected_list_item = 2
    /\ CreatorItem.tag = "Delete"
    /\ dict_has(cm.subjects, TheValue(cm.subject_editing_id))

\* every other step that replaces the list does leave the cursor on row 0
CursorResetButOnSubjectRow ==
    [][/\ WizardListReplaced /\ ~(cm.state = ViewingSubjects /\ CreatorItem.tag = "<Subject>")
            => cm'.selected_list_item = 0
       /\ ViewListReplaced => tm'.selected_list_item = 0]_vars
----------------------------------------------------------------------------
(* The shape of the wizard's input_buffer *)

\* input_buffer has the entries that the list of the state shows
BufferShape ==
    /\ cm.state \in {BasicInfo, EditingSubject} => Len(cm.input_buffer) = 2
    /\ cm.state = CreatingPeriodTimes => Len(cm.input_buffer) = 2 * cm.num_periods

\* the wizard waits on the start or the end row of a period
OnTimeRow ==
    /\ CreatorWaiting
    /\ popup = None
    /\ cm.state = CreatingPeriodTimes
    /\ CreatorItem.tag = "editor"

\* the entry of input_buffer, counted from 1, of the row of the cursor: rows
\* 3i + 1 and 3i + 2 are the start and the end of period i
TimeEntry ==
    LET i == cm.selected_list_item \div 3
    IN  IF cm.selected_list_item = 3 * i + 1 THEN 2 * i + 1 ELSE 2 * i + 2

\* the keys that a handler gives to a field editor
TypedKeys == FieldsKeys \ {KEY_DOWN, KEY_ENTER, ESC}

TypedOnTimeRow ==
    /\ OnTimeRow
    /\ \E key \in TypedKeys : FieldsPress(key)

\* C35: input_buffer has exactly 2 entries in BasicInfo and in
\* EditingSubject and exactly 2 * num_periods entries in CreatingPeriodTimes,
\* however the state was entered; a key typed on the start row or on the end
\* row of period i changes no entry but 2i or 2i + 1 (counted from 0).
C35_BufferShape ==
    /\ [](BufferShape)
    /\ [][TypedOnTimeRow =>
            /\ Len(cm'.input_buffer) = Len(cm.input_buffer)
            /\ \A j \in 1..Len(cm.input_buffer) :
                    j # TimeEntry => cm'.input_buffer[j] = cm.input_buffer[j]]_vars

\* CreatingPeriodTimes was entered again from ViewingSubjects after a subject
\* was saved, and the end time of the last period was typed
C35_Witness ==
    /\ OnTimeRow
    /\ Len(cm.subjects) = 1
    /\ cm.period_times # <<>>
    /\ cm.num_periods = 3
    /\ cm.input_buffer = <<<<>>, <<>>, <<>>, <<>>, <<>>, <<ord("7")>>>>
    /\ TimeEntry = 6
----------------------------------------------------------------------------
(* The slots of the periods that load_file accepts *)

\* every period of the Timetable is in a slot that its period_times name
SlotsKnown(t) == \A cell \in CellMap(t) : dict_has(t.period_times, cell[2])

\* C36: the Timetable of a successful load has every period in a slot that
\* is a key of its period_times, and create_period_windows, when the
\* View/Edit menu opens on it and after Delete and Save and Exit, finds the
\* row of every period and does not raise.
C36_LoadedSlotsKnown ==
    current_timetable # None =>
        /\ SlotsKnown(TheValue(current_timetable))
        /\ outcome # "ValueError"

\* load_file accepted a period in slot "9" of a Timetable whose period_times
\* have the key "0" only, and the View/Edit menu did not open
C36_GridFailed ==
    /\ file = DocUnknownSlot
    /\ current_timetable # None
    /\ ~SlotsKnown(TheValue(current_timetable))
    /\ outcome = "ValueError"
    /\ active = <<"App", "TimetableMenu">>

\* on a Timetable whose slots are known create_period_windows does not raise
KnownSlotsBuildTheGrid ==
    current_timetable # None /\ SlotsKnown(TheValue(current_timetable)) => outcome # "ValueError"
----------------------------------------------------------------------------
(* esc, one level up in each menu *)

\* the stack of menus when the menu that waits in getch() has returned
MenuReturned == SubSeq(active, 1, Len(active) - 1)

\* the View/Edit menu, and the wizard, after esc is read in world w
view_after_esc(w) == until_getch(process_input(w, ESC))

wizard_after_esc(w) ==
    creator_until_getch(creator_process_input(w, ESC, CHOOSE id \in Ids : TRUE))

\* after at most n esc keys, read while the menu of world w runs
RECURSIVE view_after_escs(_, _)
view_after_escs(w, n) ==
    IF n = 0 \/ w.outcome # "running" \/ w.active # active THEN w
    ELSE view_after_escs(view_after_esc(w), n - 1)

RECURSIVE wizard_after_escs(_, _)
wizard_after_escs(w, n) ==
    IF n = 0 \/ w.outcome # "running" \/ w.active # active THEN w
    ELSE wizard_after_escs(wizard_after_esc(w), n - 1)

\* esc read by the View/Edit menu: from Viewing the menu returns, from any
\* other state it is in the state one below; 4 esc keys make it return
ViewEscUp ==
    ViewWaiting /\ popup = None =>
        LET v == view_after_esc(World)
            out == view_after_escs(World, 4)
        IN  /\ v.outcome = "running"
            /\ v.timetable = TheValue(timetable)
            /\ v.written = None
            /\ v.tm.state = tm.state - 1
            /\ v.active = (IF tm.state = Viewing THEN MenuReturned ELSE active)
            /\ out.outcome = "running"
            /\ out.active = MenuReturned
            /\ out.tm.state = Exiting
            /\ out.timetable = TheValue(timetable)

\* esc read by the wizard: from BasicInfo the wizard returns, from any other
\* state it is in the state one below; 4 esc keys make it return
WizardEscUp ==
    CreatorWaiting /\ popup = None =>
        LET v == wizard_after_esc(CreatorWorld)
            out == wizard_after_escs(CreatorWorld, 4)
        IN  /\ v.outcome = "running"
            /\ v.timetable = timetable
            /\ v.written = None
            /\ v.cm.subjects = cm.subjects
            /\ v.cm.state = cm.state - 1
            /\ v.active = (IF cm.state = BasicInfo THEN MenuReturned ELSE active)
            /\ out.outcome = "running"
            /\ out.active = MenuReturned
            /\ out.cm.state = WizardExiting
            /\ out.cm.subjects = cm.subjects
            /\ out.timetable = timetable

\* C37: in every state of the View/Edit menu and of the wizard, whatever
\* row is selected and whether or not a field editor has the focus, esc
\* moves the menu exactly one level up (SelectingSubject, EditingPeriod,
\* Editing, Viewing, Exiting; EditingSubject, ViewingSubjects,
\* CreatingPeriodTimes, BasicInfo, Exiting) and changes neither the Timetable
\* nor the subjects of the wizard, and at most 4 esc keys make the menu
\* return.
C37_EscapeLeadsOut == ViewEscUp /\ WizardEscUp

\* esc left the Room editor of the View/Edit menu that the wizard started,
\* with a room typed and not stored
C37_Witness ==
    /\ ViewWaiting
    /\ cm # None
    /\ tm.state = Editing
    /\ tm.selected_list_item = 1
    /\ tm.input_buffer # <<>>
    /\ tm.editing = FALSE

\* esc left the Teacher editor of the wizard, and esc left BasicInfo
EscFromTeacher ==
    /\ CreatorWaiting
    /\ cm.state = ViewingSubjects
    /\ cm.input_buffer # <<>>

EscFromBasicInfo ==
    /\ cm.state = WizardExiting
    /\ active = <<"App", "QuickListMenu">>
    /\ outcome = "running"

====
